---------------------------- MODULE Spec2Model ----------------------------
(***************************************************************************)
(* A state-machine model of the CPS interpreter (after Appel, "Compiling  *)
(* with Continuations", ch. 3) in src/src/interpreter.                     *)
(*                                                                         *)
(* The Rust code evaluates an expression to an Answer and applies the      *)
(* Answer to a Store; every closure it builds ends in a call of the next   *)
(* continuation with the next store.  The model makes each of those calls  *)
(* one step: `mode` says whether an expression is about to be evaluated    *)
(* in an environment ("eval"), an Answer is about to be applied to the     *)
(* store ("apply"), a function supplied by the driver has been entered     *)
(* ("halted"), or the interpreter has panicked ("panic").                  *)
(***************************************************************************)
EXTENDS Integers, Sequences, FiniteSets, TLC

VARIABLES
  mode,             \* "eval" | "apply" | "halted" | "panic", or "call"
                    \* outside of a run of `evaluate`
  expression,       \* the ContinuationExpression under evaluation ("eval")
  environment,      \* the Environment it is evaluated in ("eval")
  answer,           \* the Answer being applied ("apply"), or entered ("halted")
  store,            \* the Store the next Answer is applied to
  overflow_checks,  \* the build: TRUE when usize overflow panics (debug)
  program,          \* the expression handed to `evaluate` (never changes)
  installed,        \* the Function last written by a sethdlr, or NoFunction
  call              \* the last call of a method of Environment or Store made
                    \* directly (SpecEnvironment, SpecStore), or NoCall

vars == <<mode, expression, environment, answer, store, overflow_checks,
          program, installed, call>>

---------------------------------------------------------------------------
(* Bounds of the model.                                                    *)

\* Integer = i64 in the code; the model keeps two's complement at this width.
WordBits == 10

\* Number of expressions drawn for the part of a program that is left open.
MaxFuel == 3

\* Number of cells by which the driver's store exceeds its initial layout.
SpareCells == 90

---------------------------------------------------------------------------
(* Integers (src/src/interpreter/mod.rs: Integer = i64, Location = usize). *)

RECURSIVE Pow2(_)
Pow2(n) == IF n = 0 THEN 1 ELSE 2 * Pow2(n - 1)

MinInteger == -Pow2(WordBits - 1)
MaxInteger == Pow2(WordBits - 1) - 1
IntegerRange == MinInteger..MaxInteger

Abs(i) == IF i < 0 THEN -i ELSE i

None == [some |-> FALSE, k |-> 0]
Some(k) == [some |-> TRUE, k |-> k]

WrappingChecked(k) ==
  Some(((k - MinInteger) % Pow2(WordBits)) + MinInteger)

\* i64::checked_add / checked_sub / checked_mul: None when the mathematical
\* result is not representable.
Checked(k) == IF k \in IntegerRange THEN Some(k) ELSE None

FlooredQuotient(i, j) == i \div j

\* Rust's `/` on integers rounds toward zero.
TruncatedQuotient(i, j) ==
  IF (i < 0) = (j < 0) THEN Abs(i) \div Abs(j) ELSE -(Abs(i) \div Abs(j))

\* i64::checked_div: None for a zero divisor and for MIN / -1.
CheckedDiv(i, j) ==
  IF j = 0 THEN None ELSE Checked(TruncatedQuotient(i, j))

---------------------------------------------------------------------------
(* Denotable values (cps/denotable_value.rs).                              *)

Integer(i) == [tag |-> "Integer", i |-> i]
Real(r) == [tag |-> "Real", r |-> r]
String(s) == [tag |-> "String", s |-> s]
Record(values, idx) == [tag |-> "Record", values |-> values, idx |-> idx]
ByteArray(start, end) == [tag |-> "ByteArray", start |-> start, end |-> end]
Array(start, end) == [tag |-> "Array", start |-> start, end |-> end]
UnboxedArray(start, end) ==
  [tag |-> "UnboxedArray", start |-> start, end |-> end]
Function(f) == [tag |-> "Function", f |-> f]
Exception(e) == [tag |-> "Exception", e |-> e]

ZERO == Integer(0)
EMPTY == <<>>

ArrayTags == {"Array", "UnboxedArray", "ByteArray"}

\* Real = OrderedFloat<f32>.  A float is its sign bit and its magnitude; a
\* NaN keeps its sign bit as payload.
F32(negative, magnitude) ==
  [nan |-> FALSE, negative |-> negative, magnitude |-> magnitude]
NaN(negative) == [nan |-> TRUE, negative |-> negative, magnitude |-> 0]

\* PartialEq of OrderedFloat: every NaN equals every NaN, and otherwise the
\* floats compare as f32 does, where -0.0 == 0.0.
RealEq(a, b) ==
  IF a.nan THEN b.nan
  ELSE /\ ~b.nan
       /\ a.magnitude = b.magnitude
       /\ a.negative = b.negative \/ a.magnitude = 0

\* mod.rs `arbitrarily`: returns its first argument.
arbitrarily(a, b) == a

\* String::as_ptr of two String values (a string is its sequence of bytes).
\* Every String DValue is a fresh clone (value_to_denotable_value clones), so
\* two of them share a pointer only when neither owns a buffer: both empty.
SamePointer(a, b) == a = <<>> /\ b = <<>>

\* impl PartialEq for DValue.
RECURSIVE DValueEq(_, _)
DValueEq(lhs, rhs) ==
  CASE lhs.tag = "Record" /\ rhs.tag = "Record" ->
         arbitrarily(
           /\ Len(lhs.values) = Len(rhs.values)
           /\ \A n \in 1..Len(lhs.values) :
                DValueEq(lhs.values[n], rhs.values[n])
           /\ lhs.idx = rhs.idx,
           FALSE)
    [] lhs.tag = "Integer" /\ rhs.tag = "Integer" -> lhs.i = rhs.i
    [] lhs.tag = "Real" /\ rhs.tag = "Real" -> RealEq(lhs.r, rhs.r)
    [] lhs.tag = "String" /\ rhs.tag = "String" ->
         arbitrarily(SamePointer(lhs.s, rhs.s), FALSE)
    [] lhs.tag \in ArrayTags /\ rhs.tag = lhs.tag ->
         lhs.start = rhs.start /\ lhs.end = rhs.end
    [] lhs.tag = "Function" /\ rhs.tag = "Function" -> FALSE
    [] OTHER -> FALSE

---------------------------------------------------------------------------
(* The store (cps/store.rs).  `values` and `integer_values` are the two    *)
(* Vecs, indexed from 0; they never grow.                                  *)

\* primitive_op.rs `next_location`: size_of::<DValue>() on a 64-bit target
\* (the largest variant, Record, is a Vec and a usize, plus the tag).
SizeOfDValue == 40

NextLocationBackwards(last_address) == last_address - 1

NextLocationStays(last_address) == last_address

next_location(last_address) == last_address + SizeOfDValue

\* Vec indexing (`v[idx]`, `v.get(idx).unwrap()`) panics outside 0..len-1.
InBounds(s, idx) == idx \in DOMAIN s.values

\* Store::fetch
fetch(s, idx) == s.values[idx]

\* Store::fetch_integer
fetch_integer(s, idx) == Integer(s.integer_values[idx])

UpdateFromCell(s, idx, value) ==
  [s EXCEPT !.values = [l \in DOMAIN s.values |->
                          IF l >= idx THEN value ELSE s.values[l]]]

\* Store::update
update(s, idx, value) ==
  IF value.tag = "Integer"
    THEN [s EXCEPT !.integer_values[idx] = value.i]
    ELSE [s EXCEPT !.values[idx] = value]

\* Store::update_integer
update_integer(s, idx, value) == [s EXCEPT !.integer_values[idx] = value]

\* `range.start + m as usize` for a start and an Integer m.  A negative m
\* becomes 2^64 + m: the sum leaves the Vec (written -1 here) when
\* start + m < 0, and overflows usize otherwise, which panics in a build
\* with overflow checks and wraps to start + m in one without.
LocationPlus(start, m, checks) ==
  IF m >= 0 THEN [panic |-> FALSE, idx |-> start + m]
  ELSE IF start + m < 0 THEN [panic |-> FALSE, idx |-> -1]
  ELSE IF checks THEN [panic |-> TRUE, idx |-> -1]
  ELSE [panic |-> FALSE, idx |-> start + m]

---------------------------------------------------------------------------
(* Environments (environment.rs): a map from variable names to DValues.    *)

\* Environment::bind
bind(env, variable, value) ==
  IF variable \in DOMAIN env /\ DValueEq(env[variable], value)
    THEN env
    ELSE [x \in DOMAIN env \cup {variable} |->
            IF x = variable THEN value ELSE env[x]]

Min(a, b) == IF a < b THEN a ELSE b

BindnPadded(env, variables, values) ==
  LET n == Len(variables)
      padded == [k \in 1..n |-> IF k <= Len(values) THEN values[k] ELSE ZERO]
      last(x) == CHOOSE k \in 1..n :
                   /\ variables[k] = x
                   /\ \A l \in (k + 1)..n : variables[l] # x
  IN  [x \in DOMAIN env \cup {variables[k] : k \in 1..n} |->
         IF \E k \in 1..n : variables[k] = x THEN padded[last(x)] ELSE env[x]]

\* Environment::bindn: `extend` over the zip of the two lists, so the
\* shorter list decides how many pairs are bound and a later pair wins.
bindn(env, variables, values) ==
  LET n == Min(Len(variables), Len(values))
      last(x) == CHOOSE k \in 1..n :
                   /\ variables[k] = x
                   /\ \A l \in (k + 1)..n : variables[l] # x
  IN  [x \in DOMAIN env \cup {variables[k] : k \in 1..n} |->
         IF \E k \in 1..n : variables[k] = x THEN values[last(x)] ELSE env[x]]

\* Atomic values of CPS terms (value.rs).
VariableV(name) == [form |-> "Variable", name |-> name]
LabelV(name) == [form |-> "Label", name |-> name]
IntegerV(i) == [form |-> "Integer", i |-> i]
RealV(r) == [form |-> "Real", r |-> r]
StringV(s) == [form |-> "String", s |-> s]

\* The Index impl behind `self[v]` panics on an unbound variable.
Bound(env, value) ==
  value.form \in {"Variable", "Label"} => value.name \in DOMAIN env

\* Environment::value_to_denotable_value
value_to_denotable_value(env, value) ==
  CASE value.form \in {"Variable", "Label"} -> env[value.name]
    [] value.form = "Integer" -> Integer(value.i)
    [] value.form = "Real" -> Real(value.r)
    [] value.form = "String" -> String(value.s)

ValuesReversed(env, vl) ==
  [n \in 1..Len(vl) |-> value_to_denotable_value(env, vl[Len(vl) + 1 - n])]

ValuesOf(env, vl) == [n \in 1..Len(vl) |-> value_to_denotable_value(env, vl[n])]

---------------------------------------------------------------------------
(* Continuations and Answers (cps/continuation.rs).  A RawContinuation is  *)
(* a Rust closure; the model keeps, for each place that builds one, a      *)
(* record of what the closure captures.                                    *)

\* struct Answer { f, parameters }
Answer(f, parameters) == [f |-> f, parameters |-> parameters]

\* Continuation::call_once: `c(parameters)` curries into an Answer.
call_once(c, parameters) == Answer(c, parameters)

NoAnswer == Answer([kind |-> "none"], EMPTY)

\* A function the driver supplies (halt, an exception handler).
External(name) == [kind |-> "external", name |-> name]

\* Exception::as_answer
as_answer(e) == Answer([kind |-> "raise"], <<Exception(e)>>)

---------------------------------------------------------------------------
(* Primitive operators (primitive_op.rs).                                  *)

IsInteger(d) == d.tag = "Integer"

RangeCheckSigned(i, j) == i < j

RangeCheckAsDocumentedInTable(i, j) ==
  \/ j < 0 /\ i < 0 /\ i < j
  \/ j >= 0 /\ i >= 0 /\ i < j

\* The nested tests of the RangeCheck arm: TRUE when `t` is called.
RangeCheckTakesThen(i, j) ==
  IF j < 0
    THEN IF i < 0
           THEN IF i < j THEN TRUE ELSE FALSE
           ELSE TRUE
    ELSE IF i < 0 THEN FALSE
    ELSE IF i < j THEN TRUE
    ELSE FALSE

\* The two Divide arms: a zero divisor first, then checked_div.
Divide(i, j, c) ==
  IF j = 0 THEN as_answer("DivideByZero")
  ELSE IF CheckedDiv(i, j).some
    THEN call_once(c, <<Integer(CheckedDiv(i, j).k)>>)
    ELSE as_answer("Overflow")

\* `if let Some(k) = ... { c(vec![DValue::Integer(k)]) } else { Overflow }`
DeliverChecked(checked, c) ==
  IF checked.some THEN call_once(c, <<Integer(checked.k)>>)
                  ELSE as_answer("Overflow")

\* The closures of the arms that need the store.
SubscriptClosure(start, m, continuation) ==
  [kind |-> "subscript", start |-> start, m |-> m,
   continuation |-> continuation]
SubscriptUnboxedClosure(start, m, continuation) ==
  [kind |-> "subscript_unboxed", start |-> start, m |-> m,
   continuation |-> continuation]
UpdateClosure(range, m, v, continuation) ==
  [kind |-> "update", start |-> range.start, end |-> range.end, m |-> m,
   v |-> v, continuation |-> continuation]
UpdateIntegerClosure(range, m, i, continuation) ==
  [kind |-> "update_integer", start |-> range.start, end |-> range.end,
   m |-> m, i |-> i, continuation |-> continuation]
MakeRefClosure(v, continuation) ==
  [kind |-> "makeref", v |-> v, continuation |-> continuation]
MakeRefUnboxedClosure(i, continuation) ==
  [kind |-> "makerefunboxed", i |-> i, continuation |-> continuation]
GetHandlerClosure(continuation) ==
  [kind |-> "gethdlr", continuation |-> continuation]
SetHandlerClosure(handler, continuation) ==
  [kind |-> "sethdlr", handler |-> handler, continuation |-> continuation]

Panicked == [panic |-> TRUE, answer |-> NoAnswer]
Returns(a) == [panic |-> FALSE, answer |-> a]

\* PrimitiveOp::evaluate: the match on (self, parameters, continuation
\* count), arm by arm in source order; the last arm is `unreachable!()`.
\* `pop()` takes the last continuation, `remove(0)` the first.  `checks` is
\* the build's overflow checking.  The arms of the floating-point operators
\* are left out: no program of the model uses them.
RECURSIVE PrimitiveOpEvaluate(_, _, _, _)
PrimitiveOpEvaluate(op, parameters, continuation_list, checks) ==
  LET n == Len(parameters)
      count == Len(continuation_list)
      p1 == parameters[1]
      p2 == parameters[2]
      p3 == parameters[3]
      c == continuation_list[count]
      f == continuation_list[2]
      t == continuation_list[1]
      TwoIntegers == n = 2 /\ IsInteger(p1) /\ IsInteger(p2)
      Branch(b) == Returns(call_once(IF b THEN t ELSE f, EMPTY))
  IN
  CASE op = "*" /\ TwoIntegers /\ count = 1 ->
         Returns(DeliverChecked(Checked(p1.i * p2.i), c))
    [] op = "+" /\ TwoIntegers /\ count = 1 ->
         Returns(DeliverChecked(Checked(p1.i + p2.i), c))
    [] op = "-" /\ TwoIntegers /\ count = 1 ->
         Returns(DeliverChecked(Checked(p1.i - p2.i), c))
    [] op = "div" /\ TwoIntegers /\ p2.i = 0 ->
         Returns(Divide(p1.i, p2.i, NoAnswer.f))
    [] op = "div" /\ TwoIntegers /\ count = 1 ->
         Returns(Divide(p1.i, p2.i, c))
    [] op = "~" /\ n = 1 /\ IsInteger(p1) /\ count = 1 ->
         Returns(DeliverChecked(Checked(0 - p1.i), c))
    [] op = "ieql" /\ n = 2 /\ count = 2 -> Branch(DValueEq(p1, p2))
    [] op = "ineq" /\ n = 2 /\ count = 2 -> Branch(~DValueEq(p1, p2))
    [] op = "<" /\ TwoIntegers /\ count = 2 -> Branch(p1.i < p2.i)
    [] op = "<=" /\ TwoIntegers /\ count = 2 -> Branch(p1.i <= p2.i)
    [] op = ">" /\ TwoIntegers /\ count = 2 -> Branch(p1.i > p2.i)
    [] op = ">=" /\ TwoIntegers /\ count = 2 -> Branch(p1.i >= p2.i)
    [] op = "rangechk" /\ TwoIntegers /\ count = 2 ->
         Branch(RangeCheckTakesThen(p1.i, p2.i))
    [] op = "!" /\ n = 1 /\ count = 1 ->
         PrimitiveOpEvaluate("subscript", <<p1, Integer(0)>>,
                             continuation_list, checks)
    [] op = "subscript" /\ n = 2 /\ p1.tag = "Array" /\ IsInteger(p2)
         /\ count = 1 ->
         Returns(Answer(SubscriptClosure(p1.start, p2.i, c), EMPTY))
    [] op = "subscript" /\ n = 2 /\ p1.tag = "UnboxedArray" /\ IsInteger(p2)
         /\ count = 1 ->
         Returns(Answer(SubscriptUnboxedClosure(p1.start, p2.i, c), EMPTY))
    [] op = "subscript" /\ n = 2 /\ p1.tag = "Record" /\ IsInteger(p2)
         /\ count = 1 ->
         LET at == LocationPlus(p1.idx, p2.i, checks)
         IN  IF at.panic \/ at.idx + 1 \notin DOMAIN p1.values
               THEN Panicked
               ELSE Returns(call_once(c, <<p1.values[at.idx + 1]>>))
    [] op = "ordof" /\ n = 2 /\ p1.tag = "String" /\ IsInteger(p2)
         /\ count = 1 ->
         IF p2.i + 1 \in DOMAIN p1.s
           THEN Returns(call_once(c, <<Integer(p1.s[p2.i + 1])>>))
           ELSE Panicked
    [] op = ":=" /\ n = 2 /\ p1.tag = "Array" /\ count = 1 ->
         PrimitiveOpEvaluate("update", <<p1, ZERO, p2>>, continuation_list,
                             checks)
    [] op = "unboxedassign" /\ n = 2 /\ count = 1 ->
         PrimitiveOpEvaluate("unboxedupdate", <<p1, ZERO, p2>>,
                             continuation_list, checks)
    [] op = "update" /\ n = 3 /\ p1.tag = "Array" /\ IsInteger(p2)
         /\ count = 1 ->
         Returns(Answer(UpdateClosure(p1, p2.i, p3, c), EMPTY))
    [] op = "update" /\ n = 3 /\ p1.tag = "UnboxedArray" /\ IsInteger(p2)
         /\ IsInteger(p3) /\ count = 1 ->
         Returns(Answer(UpdateIntegerClosure(p1, p2.i, p3.i, c), EMPTY))
    [] op = "unboxedupdate" /\ n = 3 /\ p1.tag = "Array" /\ IsInteger(p2)
         /\ IsInteger(p3) /\ count = 1 ->
         Returns(Answer(UpdateClosure(p1, p2.i, p3, c), EMPTY))
    [] op = "unboxedupdate" /\ n = 3 /\ p1.tag = "UnboxedArray"
         /\ IsInteger(p2) /\ IsInteger(p3) /\ count = 1 ->
         Returns(Answer(UpdateIntegerClosure(p1, p2.i, p3.i, c), EMPTY))
    [] op = "store" /\ n = 3 /\ p1.tag = "ByteArray" /\ IsInteger(p2)
         /\ IsInteger(p3) /\ count = 1 ->
         IF p3.i < 0 \/ p3.i >= 256
           THEN Returns(as_answer("Overflow"))
           ELSE Returns(Answer(UpdateIntegerClosure(p1, p2.i, p3.i, c),
                               EMPTY))
    [] op = "makeref" /\ n = 1 /\ count = 1 ->
         Returns(Answer(MakeRefClosure(p1, c), EMPTY))
    [] op = "makerefunboxed" /\ n = 1 /\ IsInteger(p1) /\ count = 1 ->
         Returns(Answer(MakeRefUnboxedClosure(p1.i, c), EMPTY))
    [] op = "alength" /\ n = 1 /\ p1.tag \in {"Array", "UnboxedArray"}
         /\ count = 1 ->
         Returns(call_once(c, <<Integer(p1.end - p1.start)>>))
    [] op = "slength" /\ n = 1 /\ p1.tag = "ByteArray" /\ count = 1 ->
         Returns(call_once(c, <<Integer(p1.end - p1.start)>>))
    [] op = "slength" /\ n = 1 /\ p1.tag = "String" /\ count = 1 ->
         Returns(call_once(c, <<Integer(Len(p1.s))>>))
    [] op = "gethdlr" /\ n = 0 /\ count = 1 ->
         Returns(Answer(GetHandlerClosure(c), EMPTY))
    [] op = "sethdlr" /\ n = 1 /\ count = 1 ->
         Returns(Answer(SetHandlerClosure(p1, c), EMPTY))
    [] op = "boxed" /\ n = 1 /\ p1.tag \in {"Integer", "Real"} /\ count = 2 ->
         Returns(call_once(f, EMPTY))
    [] op = "boxed" /\ n = 1 /\ count = 2
         /\ p1.tag \in {"Record", "String", "Array", "UnboxedArray",
                        "ByteArray", "Function"} ->
         Returns(call_once(t, EMPTY))
    [] OTHER -> Panicked

---------------------------------------------------------------------------
(* CPS expressions (continuation_expression.rs) and access paths           *)
(* (cps/store.rs).                                                         *)

OffsetP(n) == [path |-> "Offset", n |-> n]
SelectP(offset, access_path) ==
  [path |-> "Select", offset |-> offset, access_path |-> access_path]

RecordE(values, variable, e) ==
  [t |-> "Record", values |-> values, variable |-> variable,
   expression |-> e]
SelectE(location, value, variable, e) ==
  [t |-> "Select", location |-> location, value |-> value,
   variable |-> variable, expression |-> e]
OffsetE(location, value, variable, e) ==
  [t |-> "Offset", location |-> location, value |-> value,
   variable |-> variable, expression |-> e]
ApplyE(function, arguments) ==
  [t |-> "Apply", function |-> function, arguments |-> arguments]
PrimitiveOpE(operation, values, variables, expressions) ==
  [t |-> "PrimitiveOp", operation |-> operation, values |-> values,
   variables |-> variables, expressions |-> expressions]
FunctionDefinition(name, formal_parameters, body) ==
  [name |-> name, formal_parameters |-> formal_parameters, body |-> body]
FixE(function_defs, e) ==
  [t |-> "Fix", function_defs |-> function_defs, expression |-> e]
SwitchE(value, arms) == [t |-> "Switch", value |-> value, arms |-> arms]

\* The part of a program that the driver's term leaves open in the model:
\* `fuel` more expressions are drawn, one each time evaluation reaches it.
Rest(fuel) == [t |-> "Rest", fuel |-> fuel]

NoExpression == [t |-> "none"]
NoEnvironment == <<>>
NoFunction == [tag |-> "none"]
NoCall == [method |-> "none"]

Field(with, value) == [value |-> value, access_path |-> with]

ResolveLeavesValue(value, access_path) == [panic |-> FALSE, value |-> value]

\* resolve_field, with the panic of `values[idx + offset]` made explicit.
RECURSIVE resolve_field(_, _)
resolve_field(value, access_path) ==
  IF access_path.path = "Offset" /\ access_path.n = 0
    THEN [panic |-> FALSE, value |-> value]
  ELSE IF value.tag = "Record" /\ access_path.path = "Offset"
    THEN [panic |-> FALSE,
          value |-> Record(value.values, value.idx + access_path.n)]
  ELSE IF value.tag = "Record" /\ access_path.path = "Select"
    THEN IF value.idx + access_path.offset + 1 \in DOMAIN value.values
           THEN resolve_field(
                  value.values[value.idx + access_path.offset + 1],
                  access_path.access_path)
           ELSE [panic |-> TRUE, value |-> ZERO]
  ELSE [panic |-> FALSE, value |-> Exception("InvalidAccess")]

\* The closure the PrimitiveOp rule builds for one continuation arm `c`.
ContinuationClosure(c, env, wl) ==
  [kind |-> "continuation", c |-> c, environment |-> env, wl |-> wl]

\* Store::raise_exception
raise_exception(s, exception) ==
  IF ~InBounds(s, s.exception_handler)
    THEN Panicked
  ELSE IF s.values[s.exception_handler].tag = "Function"
    THEN Returns(Answer(s.values[s.exception_handler].f,
                        <<Exception(exception)>>))
  ELSE Panicked

---------------------------------------------------------------------------
(* The driver's side: the initial bindings, the initial store, and the     *)
(* expressions a program is drawn from.                                    *)

\* Cells of the driver's store: three arrays of two cells each, the handler
\* cell, and room for the allocations of the program.
StoreLength == 7 + SpareCells

InitialStore ==
  [next_unused_address |-> 7,
   exception_handler |-> 6,
   values |-> [l \in 0..(StoreLength - 1) |->
                 IF l = 6 THEN Function(External("h")) ELSE ZERO],
   integer_values |-> [l \in 0..(StoreLength - 1) |-> 0]]

InitialEnvironment ==
  [x \in {"halt", "then", "else", "g", "a", "u", "b"} |->
     CASE x = "a" -> Array(0, 2)
       [] x = "u" -> UnboxedArray(2, 4)
       [] x = "b" -> ByteArray(4, 6)
       [] OTHER -> Function(External(x))]

Var(name) == VariableV(name)
Lit(i) == IntegerV(i)

\* Expressions that end a program: a call of halt, or a raise.
Endings(env) ==
  {ApplyE(Var("halt"), IF "x" \in DOMAIN env THEN <<Var("x")>> ELSE <<>>),
   PrimitiveOpE("div", <<Lit(1), Lit(0)>>, <<"x">>,
                <<ApplyE(Var("halt"), <<Var("x")>>)>>)}

\* Expressions whose operands are bound in env, each continued by `k`.
Menu(env, k) ==
  LET Op(p, vl, wl) == PrimitiveOpE(p, vl, wl, <<k>>)
      has(x) == x \in DOMAIN env
  IN     {Op("makeref", <<v>>, <<"r">>) :
            v \in {Lit(0), Var("g")} \cup IF has("r") THEN {Var("r")} ELSE {}}
    \cup {Op("makerefunboxed", <<Lit(1)>>, <<"r">>)}
    \cup {Op(":=", <<Var("r"), v>>, <<>>) :
            v \in IF has("r") THEN {Lit(7), Var("g")} ELSE {}}
    \cup {Op("update", <<Var("a"), Lit(n), Var("halt")>>, <<>>) :
            n \in {1, 6}}
    \cup {Op("update", <<Var("u"), Lit(n), Lit(7)>>, <<>>) : n \in {-1, 0}}
    \cup {Op("unboxedupdate", <<Var("a"), Lit(0), Lit(7)>>, <<>>),
          Op("unboxedupdate", <<Var("u"), Lit(1), Lit(7)>>, <<>>),
          Op("unboxedassign", <<Var("u"), Lit(7)>>, <<>>)}
    \cup {Op("store", <<Var("b"), Lit(0), Lit(v)>>, <<>>) : v \in {7, 256}}
    \cup {Op("!", <<Var("r")>>, <<"x">>) :
            v \in IF has("r") THEN {0} ELSE {}}
    \cup {Op("subscript", <<Var(v), Lit(1)>>, <<"x">>) : v \in {"a", "u"}}
    \cup {Op("sethdlr", <<v>>, <<>>) : v \in {Var("g"), Var("a"), Lit(0)}}
    \cup {Op("gethdlr", <<>>, <<"x">>)}
    \cup {RecordE(<<Field(OffsetP(0), Lit(10)), Field(OffsetP(0), Var("a"))>>,
                  "w", k),
          RecordE(<<>>, "w", k)}
    \cup {OffsetE(1, Var("w"), "w", k) :
            v \in IF has("w") THEN {0} ELSE {}}
    \cup {SelectE(1, Var("w"), "x", k) :
            v \in IF has("w") THEN {0} ELSE {}}

\* What the expression under evaluation may be: itself, or, where the
\* program is left open, any expression of the menu.
Draw(e, env) ==
  IF e.t # "Rest" THEN {e}
  ELSE IF e.fuel = 0 THEN Endings(env)
  ELSE Menu(env, Rest(e.fuel - 1))

---------------------------------------------------------------------------
(* The steps.                                                              *)

Eval(e, env) ==
  /\ mode' = "eval"
  /\ expression' = e
  /\ environment' = env
  /\ answer' = NoAnswer

Apply(a) ==
  /\ mode' = "apply"
  /\ answer' = a
  /\ expression' = NoExpression
  /\ environment' = NoEnvironment

Panic ==
  /\ mode' = "panic"
  /\ answer' = NoAnswer
  /\ expression' = NoExpression
  /\ environment' = NoEnvironment

ApplyOrPanic(r) == IF r.panic THEN Panic ELSE Apply(r.answer)

AllBound(env, vl) == \A n \in 1..Len(vl) : Bound(env, vl[n])

\* ContinuationExpression::evaluate, Record arm.
EvaluateRecord ==
  /\ mode = "eval"
  /\ \E e \in Draw(expression, environment) :
       /\ e.t = "Record"
       /\ LET resolved == [n \in 1..Len(e.values) |->
                resolve_field(
                  value_to_denotable_value(environment, e.values[n].value),
                  e.values[n].access_path)]
              d_values == [n \in 1..Len(e.values) |-> resolved[n].value]
              record == Record(d_values, 0)
          IN  IF /\ \A n \in 1..Len(e.values) :
                      Bound(environment, e.values[n].value)
                 /\ \A n \in 1..Len(e.values) : ~resolved[n].panic
                THEN Eval(e.expression, bind(environment, e.variable, record))
                ELSE Panic
  /\ UNCHANGED <<store, overflow_checks, program, installed, call>>

\* ContinuationExpression::evaluate, Select arm.
EvaluateSelect ==
  /\ mode = "eval"
  /\ \E e \in Draw(expression, environment) :
       /\ e.t = "Select"
       /\ IF ~Bound(environment, e.value) THEN Panic
          ELSE LET d == value_to_denotable_value(environment, e.value)
               IN  IF d.tag # "Record" THEN Apply(as_answer("InvalidAccess"))
                   ELSE IF e.location + d.idx + 1 \notin DOMAIN d.values
                     THEN Panic
                   ELSE Eval(e.expression,
                             bind(environment, e.variable,
                                  d.values[e.location + d.idx + 1]))
  /\ UNCHANGED <<store, overflow_checks, program, installed, call>>

\* ContinuationExpression::evaluate, Offset arm.
EvaluateOffset ==
  /\ mode = "eval"
  /\ \E e \in Draw(expression, environment) :
       /\ e.t = "Offset"
       /\ IF ~Bound(environment, e.value) THEN Panic
          ELSE LET d == value_to_denotable_value(environment, e.value)
               IN  IF d.tag # "Record" THEN Apply(as_answer("InvalidAccess"))
                   ELSE Eval(e.expression,
                             bind(environment, e.variable,
                                  Record(d.values, e.location + d.idx)))
  /\ UNCHANGED <<store, overflow_checks, program, installed, call>>

\* ContinuationExpression::evaluate, Apply arm.
EvaluateApply ==
  /\ mode = "eval"
  /\ \E e \in Draw(expression, environment) :
       /\ e.t = "Apply"
       /\ IF ~Bound(environment, e.function) THEN Panic
          ELSE LET d == value_to_denotable_value(environment, e.function)
               IN  IF d.tag # "Function" THEN Apply(as_answer("Undefined"))
                   ELSE IF ~AllBound(environment, e.arguments) THEN Panic
                   ELSE Apply(call_once(d.f,
                                        ValuesOf(environment, e.arguments)))
  /\ UNCHANGED <<store, overflow_checks, program, installed, call>>

HWithoutEnvironment(r1_environment, function_def, fl_list) ==
  Function([kind |-> "fix", r1_environment |-> NoEnvironment,
            function_def |-> function_def, fl_list |-> fl_list])

\* The inner function `h` of the Fix arm: the Function of one definition,
\* a closure over the environment r1 and the whole list of definitions.
h(r1_environment, function_def, fl_list) ==
  Function([kind |-> "fix", r1_environment |-> r1_environment,
            function_def |-> function_def, fl_list |-> fl_list])

GOfFirstDefinition(r, fl_list) ==
  bindn(r,
        [n \in 1..Len(fl_list) |-> fl_list[n].name],
        [n \in 1..Len(fl_list) |-> h(r, fl_list[1], fl_list)])

\* The inner function `g` of the Fix arm: r with every name of fl_list bound
\* to the Function of its definition.
g(r, fl_list) ==
  bindn(r,
        [n \in 1..Len(fl_list) |-> fl_list[n].name],
        [n \in 1..Len(fl_list) |-> h(r, fl_list[n], fl_list)])

\* ContinuationExpression::evaluate, Fix arm.
EvaluateFix ==
  /\ mode = "eval"
  /\ \E e \in Draw(expression, environment) :
       /\ e.t = "Fix"
       /\ Eval(e.expression, g(environment, e.function_defs))
  /\ UNCHANGED <<store, overflow_checks, program, installed, call>>

\* The closure built by `h`: rebind the functions, bind the actual
\* parameters to the formal ones, evaluate the body.
CallFunction ==
  /\ mode = "apply"
  /\ answer.f.kind = "fix"
  /\ Eval(answer.f.function_def.body,
          bindn(g(answer.f.r1_environment, answer.f.fl_list),
                answer.f.function_def.formal_parameters,
                answer.parameters))
  /\ UNCHANGED <<store, overflow_checks, program, installed, call>>

\* ContinuationExpression::evaluate, Switch arm; `arms[i as usize]` panics
\* for an index outside the list (a negative i becomes a huge usize).
EvaluateSwitch ==
  /\ mode = "eval"
  /\ \E e \in Draw(expression, environment) :
       /\ e.t = "Switch"
       /\ IF ~Bound(environment, e.value) THEN Panic
          ELSE LET d == value_to_denotable_value(environment, e.value)
               IN  IF d.tag # "Integer"
                     THEN Apply(as_answer("IndexOutOfBounds"))
                   ELSE IF d.i + 1 \notin DOMAIN e.arms THEN Panic
                   ELSE Eval(e.arms[d.i + 1], environment)
  /\ UNCHANGED <<store, overflow_checks, program, installed, call>>

\* ContinuationExpression::evaluate, PrimitiveOp arm.
EvaluatePrimitiveOp ==
  /\ mode = "eval"
  /\ \E e \in Draw(expression, environment) :
       /\ e.t = "PrimitiveOp"
       /\ IF ~AllBound(environment, e.values) THEN Panic
          ELSE LET d_values == ValuesOf(environment, e.values)
                   continuations ==
                     [n \in 1..Len(e.expressions) |->
                        ContinuationClosure(e.expressions[n], environment,
                                            e.variables)]
               IN  ApplyOrPanic(PrimitiveOpEvaluate(
                     e.operation, d_values, continuations, overflow_checks))
  /\ UNCHANGED <<store, overflow_checks, program, installed, call>>

\* The closure of a continuation arm: bind the result variables, evaluate
\* the arm, apply its Answer to the store.
CallContinuation ==
  /\ mode = "apply"
  /\ answer.f.kind = "continuation"
  /\ Eval(answer.f.c,
          bindn(answer.f.environment, answer.f.wl, answer.parameters))
  /\ UNCHANGED <<store, overflow_checks, program, installed, call>>

\* A function of the driver is entered; what it returns is the driver's.
CallExternal ==
  /\ mode = "apply"
  /\ answer.f.kind = "external"
  /\ mode' = "halted"
  /\ UNCHANGED <<expression, environment, answer, store, overflow_checks,
                 program, installed, call>>

\* The closure of Exception::as_answer.
CallRaise ==
  /\ mode = "apply"
  /\ answer.f.kind = "raise"
  /\ IF Len(answer.parameters) = 1 /\ answer.parameters[1].tag = "Exception"
       THEN ApplyOrPanic(raise_exception(store, answer.parameters[1].e))
       ELSE Panic
  /\ UNCHANGED <<store, overflow_checks, program, installed, call>>

\* What a closure that uses the store hands on: the continuation's
\* parameters and the store it is called with.
Hands(parameters, s) == [panic |-> FALSE, parameters |-> parameters, s |-> s]
StorePanic == [panic |-> TRUE, parameters |-> EMPTY, s |-> InitialStore]

\* The closures of the two Subscript arms on arrays.
SubscriptCall(s, f, checks, unboxed) ==
  LET at == LocationPlus(f.start, f.m, checks)
  IN  IF at.panic \/ ~InBounds(s, at.idx) THEN StorePanic
      ELSE Hands(<<IF unboxed THEN fetch_integer(s, at.idx)
                              ELSE fetch(s, at.idx)>>, s)

\* The closures of the Update and UnboxedUpdate arms on an Array.
UpdateCall(s, f, checks) ==
  LET at == LocationPlus(f.start, f.m, checks)
  IN  IF at.panic \/ ~InBounds(s, at.idx) THEN StorePanic
      ELSE Hands(EMPTY, update(s, at.idx, f.v))

\* The closures of the Update and UnboxedUpdate arms on an UnboxedArray and
\* of the Store arm.
UpdateIntegerCall(s, f, checks) ==
  LET at == LocationPlus(f.start, f.m, checks)
  IN  IF at.panic \/ ~InBounds(s, at.idx) THEN StorePanic
      ELSE Hands(EMPTY, update_integer(s, at.idx, f.i))

MakeRefRangeAtNext(last_address, next_address) ==
  Array(next_address, next_address + 1)

\* The range the MakeRef and MakeRefUnboxed closures pass on.
MakeRefRange(last_address, next_address) ==
  Array(last_address, last_address + 1)

\* The closure of the MakeRef arm.
MakeRefCall(s, f) ==
  LET last_address == s.next_unused_address
  IN  IF ~InBounds(s, last_address) THEN StorePanic
      ELSE LET new_store ==
                 [update(s, last_address, f.v) EXCEPT
                    !.next_unused_address = next_location(last_address)]
           IN  Hands(<<MakeRefRange(last_address,
                                    new_store.next_unused_address)>>,
                     new_store)

\* The closure of the MakeRefUnboxed arm.
MakeRefUnboxedCall(s, f) ==
  LET last_address == s.next_unused_address
  IN  IF ~InBounds(s, last_address) THEN StorePanic
      ELSE LET new_store ==
                 [update_integer(s, last_address, f.i) EXCEPT
                    !.next_unused_address = next_location(last_address)]
           IN  Hands(<<MakeRefRange(last_address,
                                    new_store.next_unused_address)>>,
                     new_store)

\* The closure of the GetHandler arm.
GetHandlerCall(s) ==
  IF ~InBounds(s, s.exception_handler) THEN StorePanic
  ELSE Hands(<<fetch(s, s.exception_handler)>>, s)

\* The closure of the SetHandler arm.
SetHandlerCall(s, f) ==
  IF ~InBounds(s, s.exception_handler) THEN StorePanic
  ELSE Hands(EMPTY, update(s, s.exception_handler, f.handler))

ContinueWithStoreReceived(r, continuation) ==
  IF r.panic
    THEN Panic /\ UNCHANGED store
    ELSE Apply(Answer(continuation, r.parameters)) /\ UNCHANGED store

\* `(continuation.f)(&parameters, &new_store)` at the end of such a closure.
Continue(r, continuation) ==
  IF r.panic
    THEN Panic /\ UNCHANGED store
    ELSE Apply(Answer(continuation, r.parameters)) /\ store' = r.s

CallSubscript ==
  /\ mode = "apply"
  /\ answer.f.kind = "subscript"
  /\ Continue(SubscriptCall(store, answer.f, overflow_checks, FALSE),
              answer.f.continuation)
  /\ UNCHANGED <<overflow_checks, program, installed, call>>

CallSubscriptUnboxed ==
  /\ mode = "apply"
  /\ answer.f.kind = "subscript_unboxed"
  /\ Continue(SubscriptCall(store, answer.f, overflow_checks, TRUE),
              answer.f.continuation)
  /\ UNCHANGED <<overflow_checks, program, installed, call>>

CallUpdate ==
  /\ mode = "apply"
  /\ answer.f.kind = "update"
  /\ Continue(UpdateCall(store, answer.f, overflow_checks),
              answer.f.continuation)
  /\ UNCHANGED <<overflow_checks, program, installed, call>>

CallUpdateInteger ==
  /\ mode = "apply"
  /\ answer.f.kind = "update_integer"
  /\ Continue(UpdateIntegerCall(store, answer.f, overflow_checks),
              answer.f.continuation)
  /\ UNCHANGED <<overflow_checks, program, installed, call>>

CallMakeRef ==
  /\ mode = "apply"
  /\ answer.f.kind = "makeref"
  /\ Continue(MakeRefCall(store, answer.f), answer.f.continuation)
  /\ UNCHANGED <<overflow_checks, program, installed, call>>

CallMakeRefUnboxed ==
  /\ mode = "apply"
  /\ answer.f.kind = "makerefunboxed"
  /\ Continue(MakeRefUnboxedCall(store, answer.f), answer.f.continuation)
  /\ UNCHANGED <<overflow_checks, program, installed, call>>

CallGetHandler ==
  /\ mode = "apply"
  /\ answer.f.kind = "gethdlr"
  /\ Continue(GetHandlerCall(store), answer.f.continuation)
  /\ UNCHANGED <<overflow_checks, program, installed, call>>

\* `installed` remembers the operand of the sethdlr whose continuation is
\* called, when it is a Function.
CallSetHandler ==
  /\ mode = "apply"
  /\ answer.f.kind = "sethdlr"
  /\ Continue(SetHandlerCall(store, answer.f), answer.f.continuation)
  /\ installed' = IF ~SetHandlerCall(store, answer.f).panic
                     /\ answer.f.handler.tag = "Function"
                    THEN answer.f.handler ELSE NoFunction
  /\ UNCHANGED <<overflow_checks, program, call>>

---------------------------------------------------------------------------
(* Programs and specifications.                                            *)

Halt(values) == ApplyE(Var("halt"), values)

\* S5 of the specification, for a first value v0 and an assigned value v.
ReferenceCell(v0, v) ==
  PrimitiveOpE("makeref", <<v0>>, <<"r">>, <<
    PrimitiveOpE(":=", <<Var("r"), v>>, <<>>, <<
      PrimitiveOpE("!", <<Var("r")>>, <<"x">>, <<Halt(<<Var("x")>>)>>)>>)>>)

\* S6 of the specification.
Handler(handler) ==
  PrimitiveOpE("sethdlr", <<Var(handler)>>, <<>>, <<
    PrimitiveOpE("div", <<Lit(1), Lit(0)>>, <<"x">>, <<Halt(<<Var("x")>>)>>)>>)

ReferenceCellValues == {Lit(7), Var("g"), Var("a")}

\* Two reference cells: the first is assigned v, then the second is read.
TwoReferences(v1, v2, v) ==
  PrimitiveOpE("makeref", <<v1>>, <<"r">>, <<
    PrimitiveOpE("makeref", <<v2>>, <<"s">>, <<
      PrimitiveOpE(":=", <<Var("r"), v>>, <<>>, <<
        PrimitiveOpE("!", <<Var("s")>>, <<"x">>, <<Halt(<<Var("x")>>)>>)>>)>>)>>)

TwoReferencePrograms ==
  {TwoReferences(v1, v2, v) :
     v1 \in {Lit(0), Var("a")}, v2 \in {Var("g"), Var("a")},
     v \in {Lit(7), Var("halt")}}

\* A reference made by makerefunboxed and read with `read`, which is ! or
\* subscript at index 0.
UnboxedReference(i, read) ==
  PrimitiveOpE("makerefunboxed", <<Lit(i)>>, <<"r">>, <<
    PrimitiveOpE(read, IF read = "!" THEN <<Var("r")>>
                                     ELSE <<Var("r"), Lit(0)>>,
                 <<"x">>, <<Halt(<<Var("x")>>)>>)>>)

UnboxedReferenceValues == {MinInteger, -1, 0, 1, 7, MaxInteger}

UnboxedReferencePrograms ==
  {UnboxedReference(i, read) :
     i \in UnboxedReferenceValues, read \in {"!", "subscript"}}

\* A reference cell assigned v1 and then v2, and read.
WriteTwice(v1, v2) ==
  PrimitiveOpE("makeref", <<Var("g")>>, <<"r">>, <<
    PrimitiveOpE(":=", <<Var("r"), v1>>, <<>>, <<
      PrimitiveOpE(":=", <<Var("r"), v2>>, <<>>, <<
        PrimitiveOpE("!", <<Var("r")>>, <<"x">>, <<Halt(<<Var("x")>>)>>)>>)>>)>>)

\* Two handlers installed one after the other, then a raise.
HandlerTwice(h1, h2) ==
  PrimitiveOpE("sethdlr", <<Var(h1)>>, <<>>, <<Handler(h2)>>)

OrderPrograms ==
       {WriteTwice(Var(v1), Var(v2)) :
          v1 \in {"a", "halt"}, v2 \in {"a", "halt"}}
  \cup {HandlerTwice(h1, h2) : h1 \in {"g", "then"}, h2 \in {"g", "then"}}

Scenarios ==
  {ReferenceCell(Lit(0), v) : v \in ReferenceCellValues} \cup {Handler("g")}
    \cup TwoReferencePrograms \cup UnboxedReferencePrograms
    \cup OrderPrograms

Start(p) ==
  /\ program = p
  /\ mode = "eval"
  /\ expression = p
  /\ environment = InitialEnvironment
  /\ answer = NoAnswer
  /\ store = InitialStore
  /\ overflow_checks \in BOOLEAN
  /\ installed = NoFunction
  /\ call = NoCall

Init == \E p \in Scenarios \cup {Rest(MaxFuel)} : Start(p)

Next ==
  \/ EvaluateRecord
  \/ EvaluateSelect
  \/ EvaluateOffset
  \/ EvaluateApply
  \/ EvaluatePrimitiveOp
  \/ CallContinuation
  \/ CallExternal
  \/ CallRaise
  \/ CallSubscript
  \/ CallSubscriptUnboxed
  \/ CallUpdate
  \/ CallUpdateInteger
  \/ CallMakeRef
  \/ CallMakeRefUnboxed
  \/ CallGetHandler
  \/ CallSetHandler

Spec == Init /\ [][Next]_vars

\* Operands of the integer primitives: the ends of the word range, its
\* middle, and small numbers of both signs.
Operands ==
  {MinInteger, MinInteger + 1, -(MaxInteger \div 2) - 2, -(MaxInteger \div 2),
   -41, 40, MaxInteger \div 2, (MaxInteger \div 2) + 1, MaxInteger - 1,
   MaxInteger} \cup (-7..7)

\* S1 and S2 of the specification, for any producer and operands.
Producer(op, operands) ==
  PrimitiveOpE(op, operands, <<"x">>, <<Halt(<<Var("x")>>)>>)

\* A predicate with its two arms.
Predicate(op, operands) ==
  PrimitiveOpE(op, operands, <<>>,
               <<ApplyE(Var("then"), <<>>), ApplyE(Var("else"), <<>>)>>)

ArithmeticPrograms ==
       {Producer(op, <<Lit(i), Lit(j)>>) :
          op \in {"*", "+", "-", "div"}, i \in Operands, j \in Operands}
  \cup {Producer("~", <<Lit(i)>>) : i \in Operands}
  \cup {Predicate("rangechk", <<Lit(i), Lit(j)>>) :
          i \in Operands, j \in Operands}

InitArithmetic == \E p \in ArithmeticPrograms : Start(p)

NextArithmetic ==
  \/ EvaluateApply
  \/ EvaluatePrimitiveOp
  \/ CallContinuation
  \/ CallExternal
  \/ CallRaise

SpecArithmetic == InitArithmetic /\ [][NextArithmetic]_vars

---------------------------------------------------------------------------
(* Properties of the store and of records, under Spec.                     *)

\* The Answer has reached the driver's function `name` with `parameters`.
Entered(name, parameters) ==
  /\ mode = "halted"
  /\ answer.f = External(name)
  /\ answer.parameters = parameters

\* C1: a reference cell made with makeref and assigned v with := yields v
\* when read with !; in S5, halt receives the assigned value (Integer(7)).
C1_ReferenceCellRoundTrip ==
  \A v \in ReferenceCellValues :
    program = ReferenceCell(Lit(0), v) =>
      /\ mode # "panic"
      /\ mode = "halted" =>
           Entered("halt", <<value_to_denotable_value(InitialEnvironment, v)>>)

\* C2: once sethdlr has installed a function h, and until the next sethdlr,
\* a raise invokes h with the one parameter Exception(kind) and the store
\* as it is at the raise.
C2_InstalledHandlerInvoked ==
  [][(mode = "apply" /\ answer.f.kind = "raise" /\ installed # NoFunction) =>
       /\ mode' = "apply"
       /\ answer'.f = installed.f
       /\ answer'.parameters = answer.parameters
       /\ store' = store]_vars

\* C3: the handler cell of the store holds a Function in every state.
C3_HandlerCellHoldsFunction ==
  store.values[store.exception_handler].tag = "Function"

\* C4: next_unused_address never decreases, and only the closures of
\* makeref and makerefunboxed increase it.
C4_NextUnusedMonotone ==
  [][/\ store'.next_unused_address >= store.next_unused_address
     /\ store'.next_unused_address > store.next_unused_address =>
          mode = "apply" /\ answer.f.kind \in {"makeref", "makerefunboxed"}]_vars

\* Two allocations have advanced next_unused_address.
C4_Witness ==
  store.next_unused_address >
    next_location(InitialStore.next_unused_address)

\* The environments of a state: the one under evaluation, or the one the
\* continuation about to be called has captured.
Environments ==
  IF mode = "eval" THEN {environment}
  ELSE IF mode # "apply" THEN {}
  ELSE IF answer.f.kind = "continuation" THEN {answer.f.environment}
  ELSE IF "continuation" \in DOMAIN answer.f
    THEN {answer.f.continuation.environment}
  ELSE {}

\* Every array range in d, or in a field of d, ends at or before `limit`.
RECURSIVE Allocated(_, _)
Allocated(d, limit) ==
  IF d.tag \in ArrayTags THEN d.end <= limit
  ELSE IF d.tag = "Record"
    THEN \A n \in 1..Len(d.values) : Allocated(d.values[n], limit)
  ELSE TRUE

\* C5: every Array, UnboxedArray and ByteArray held in an environment, in a
\* record field, in a store cell or in the parameters of an Answer ends at
\* or before next_unused_address.
C5_ArraysWithinAllocation ==
  LET limit == store.next_unused_address
  IN  /\ \A env \in Environments :
           \A x \in DOMAIN env : Allocated(env[x], limit)
      /\ \A n \in 1..Len(answer.parameters) :
           Allocated(answer.parameters[n], limit)
      /\ \A l \in DOMAIN store.values : Allocated(store.values[l], limit)

\* A reference to a reference: r is bound to a cell made by makeref whose
\* content is the range of an earlier cell.
C5_Witness ==
  /\ mode = "eval"
  /\ "r" \in DOMAIN environment
  /\ environment["r"].tag = "Array"
  /\ environment["r"].start > InitialStore.next_unused_address
  /\ store.values[environment["r"].start].tag = "Array"

\* Every Record in d, d included, points at one of its fields.
RECURSIVE OffsetWithinFields(_)
OffsetWithinFields(d) ==
  IF d.tag = "Record"
    THEN /\ d.idx < Len(d.values)
         /\ \A n \in 1..Len(d.values) : OffsetWithinFields(d.values[n])
    ELSE TRUE

\* C6: every Record the evaluator produces has offset < len(fields), the
\* empty Record and a Record displaced by Offset included.
C6_RecordOffsetWithinFields ==
  /\ \A env \in Environments :
       \A x \in DOMAIN env : OffsetWithinFields(env[x])
  /\ \A n \in 1..Len(answer.parameters) :
       OffsetWithinFields(answer.parameters[n])

\* C25: a write through an array value with update, unboxedupdate, := or
\* store, at any index, changes no cell of the store outside the range of
\* that array: no cell of another array, no cell at or beyond
\* next_unused_address, and not the handler cell.
C25_WritesWithinRange ==
  [][(mode = "apply" /\ answer.f.kind \in {"update", "update_integer"}) =>
       \A l \in DOMAIN store.values :
         (\/ store'.values[l] # store.values[l]
          \/ store'.integer_values[l] # store.integer_values[l]) =>
           l \in answer.f.start..(answer.f.end - 1)]_vars

\* C23: each makeref and each makerefunboxed advances next_unused_address
\* by exactly 1 and passes its continuation the range from the old
\* next_unused_address to the old next_unused_address + 1.
C23_AllocationAdvancesByOne ==
  [][(mode = "apply" /\ answer.f.kind \in {"makeref", "makerefunboxed"}
        /\ mode' # "panic") =>
       LET old == store.next_unused_address
       IN  /\ store'.next_unused_address = old + 1
           /\ answer'.f = answer.f.continuation
           /\ answer'.parameters = <<Array(old, old + 1)>>]_vars

\* The array ranges in d: its own, or those of its fields.
RECURSIVE Ranges(_)
Ranges(d) ==
  IF d.tag \in ArrayTags THEN {[start |-> d.start, end |-> d.end]}
  ELSE IF d.tag = "Record"
    THEN UNION {Ranges(d.values[n]) : n \in 1..Len(d.values)}
  ELSE {}

\* The array ranges held anywhere in the state: in an environment, in a
\* cell of the store, in the parameters of the Answer, or in the value a
\* makeref closure is about to store.
Held ==
  UNION (UNION {{Ranges(env[x]) : x \in DOMAIN env} : env \in Environments}
           \cup {Ranges(store.values[l]) : l \in DOMAIN store.values}
           \cup {Ranges(answer.parameters[n]) :
                   n \in 1..Len(answer.parameters)}
           \cup IF mode = "apply" /\ answer.f.kind = "makeref"
                  THEN {Ranges(answer.f.v)} ELSE {})

Disjoint(range1, range2) ==
  range1.end <= range2.start \/ range2.end <= range1.start

\* C26: the range a makeref or a makerefunboxed returns is disjoint from
\* every range returned before it and from the handler location; an
\* assignment through one reference changes no cell but that reference's
\* own, so the value read through another reference is what it was.
C26_ReferencesDisjoint ==
  /\ [][(mode = "apply" /\ answer.f.kind \in {"makeref", "makerefunboxed"}
          /\ mode' # "panic") =>
         LET new == answer'.parameters[1]
         IN  /\ new.tag = "Array"
             /\ new.end = new.start + 1
             /\ store.exception_handler \notin new.start..(new.end - 1)
             /\ \A range \in Held : Disjoint(range, new)]_vars
  /\ [][(mode = "apply" /\ answer.f.kind \in {"update", "update_integer"}
          /\ answer.f.m = 0 /\ answer.f.end = answer.f.start + 1) =>
         \A l \in DOMAIN store.values \ {answer.f.start} :
           /\ store'.values[l] = store.values[l]
           /\ store'.integer_values[l] = store.integer_values[l]]_vars
  /\ [](program \in TwoReferencePrograms =>
          /\ mode # "panic"
          /\ mode = "halted" =>
               Entered("halt",
                       <<value_to_denotable_value(InitialEnvironment,
                           program.expressions[1].values[1])>>))

\* The second of two references still yields g after the first was assigned.
C26_Witness ==
  /\ program = TwoReferences(Lit(0), Var("g"), Lit(7))
  /\ Entered("halt", <<InitialEnvironment["g"]>>)

\* C27: a reference made by makerefunboxed i, read with ! or with
\* subscript at index 0, delivers Integer(i), for every integer i.
C27_UnboxedReferenceRoundTrip ==
  \A i \in UnboxedReferenceValues, read \in {"!", "subscript"} :
    program = UnboxedReference(i, read) =>
      /\ mode # "panic"
      /\ mode = "halted" => Entered("halt", <<Integer(i)>>)

\* The closures that write the store.
Writers == {"update", "update_integer", "makeref", "makerefunboxed", "sethdlr"}

\* The store a writing closure f produces from the store s.
Written(s, f) ==
  CASE f.kind = "update" -> update(s, f.start + f.m, f.v)
    [] f.kind = "update_integer" -> update_integer(s, f.start + f.m, f.i)
    [] f.kind = "makeref" ->
         [update(s, s.next_unused_address, f.v) EXCEPT
            !.next_unused_address = next_location(s.next_unused_address)]
    [] f.kind = "makerefunboxed" ->
         [update_integer(s, s.next_unused_address, f.i) EXCEPT
            !.next_unused_address = next_location(s.next_unused_address)]
    [] f.kind = "sethdlr" -> update(s, s.exception_handler, f.handler)

\* C30: store effects happen in program order and none is lost.  The
\* continuation of a primitive that writes (update, unboxedupdate, :=,
\* store, makeref, makerefunboxed, sethdlr) is called with exactly the store
\* that write produces; every other step hands on the store it received;
\* a read and a raise take what they read from that store.
C30_StoreThreaded ==
  /\ [][(mode = "apply" /\ answer.f.kind \in Writers /\ mode' # "panic") =>
         /\ mode' = "apply"
         /\ answer'.f = answer.f.continuation
         /\ store' = Written(store, answer.f)]_vars
  /\ [][~(mode = "apply" /\ answer.f.kind \in Writers) => store' = store]_vars
  /\ [][(mode = "apply" /\ mode' # "panic"
          /\ answer.f.kind \in {"subscript", "subscript_unboxed", "gethdlr",
                                 "raise"}) =>
         CASE answer.f.kind = "subscript" ->
                /\ answer'.f = answer.f.continuation
                /\ answer'.parameters =
                     <<fetch(store, answer.f.start + answer.f.m)>>
           [] answer.f.kind = "subscript_unboxed" ->
                /\ answer'.f = answer.f.continuation
                /\ answer'.parameters =
                     <<fetch_integer(store, answer.f.start + answer.f.m)>>
           [] answer.f.kind = "gethdlr" ->
                /\ answer'.f = answer.f.continuation
                /\ answer'.parameters =
                     <<fetch(store, store.exception_handler)>>
           [] answer.f.kind = "raise" ->
                /\ Function(answer'.f) = fetch(store, store.exception_handler)
                /\ answer'.parameters = answer.parameters]_vars
  /\ [](\A v1 \in {"a", "halt"}, v2 \in {"a", "halt"} :
          program = WriteTwice(Var(v1), Var(v2)) =>
            /\ mode # "panic"
            /\ mode = "halted" =>
                 Entered("halt", <<InitialEnvironment[v2]>>))
  /\ [](\A h1 \in {"g", "then"}, h2 \in {"g", "then"} :
          program = HandlerTwice(h1, h2) =>
            /\ mode # "panic"
            /\ mode = "halted" =>
                 Entered(h2, <<Exception("DivideByZero")>>))

\* The cell assigned a and then halt has yielded halt.
C30_Witness ==
  /\ program = WriteTwice(Var("a"), Var("halt"))
  /\ Entered("halt", <<InitialEnvironment["halt"]>>)

---------------------------------------------------------------------------
(* Properties of the integer primitives, under SpecArithmetic.             *)

Operation == program.operation
OperandI == program.values[1].i
OperandJ == program.values[2].i

\* Every state of a run in which the primitive hands `result` to its one
\* continuation: no raise, the arm is evaluated with x bound to the
\* result, and halt receives it.
Delivers(result) ==
  /\ mode # "panic"
  /\ mode = "apply" =>
       \/ answer.f.kind = "continuation" /\ answer.parameters = <<result>>
       \/ answer.f = External("halt") /\ answer.parameters = <<result>>
  /\ mode = "eval" /\ expression # program =>
       /\ expression = program.expressions[1]
       /\ environment["x"] = result
       /\ \A v \in DOMAIN InitialEnvironment :
            environment[v] = InitialEnvironment[v]
  /\ mode = "halted" => Entered("halt", <<result>>)

\* Every state of a run in which the primitive raises `e`: the raise goes
\* to the handler h of the initial store, and no arm is evaluated.
Raises(e) ==
  /\ mode # "panic"
  /\ mode = "apply" =>
       /\ answer.parameters = <<Exception(e)>>
       /\ answer.f.kind = "raise" \/ answer.f = External("h")
  /\ mode = "eval" => expression = program
  /\ mode = "halted" => Entered("h", <<Exception(e)>>)

MathematicalResult ==
  CASE Operation = "+" -> OperandI + OperandJ
    [] Operation = "-" -> OperandI - OperandJ
    [] Operation = "*" -> OperandI * OperandJ
    [] Operation = "~" -> -OperandI

\* C7: for +, -, * and ~ with one continuation, a representable
\* mathematical result is delivered to the continuation, bound to the result
\* variable, with no exception; any other result raises Overflow to the
\* handler and the continuation arm is not evaluated.
C7_CheckedArithmetic ==
  Operation \in {"+", "-", "*", "~"} =>
    IF MathematicalResult \in IntegerRange
      THEN Delivers(Integer(MathematicalResult))
      ELSE Raises("Overflow")

\* 40 + 2 has delivered 42 to halt.
C7_Witness ==
  /\ program = Producer("+", <<Lit(40), Lit(2)>>)
  /\ Entered("halt", <<Integer(42)>>)

\* q is i / j rounded toward zero: the remainder is smaller than the
\* divisor and has the sign of the dividend.
RoundsTowardZero(q, i, j) ==
  LET r == i - q * j
  IN  /\ Abs(r) < Abs(j)
      /\ r = 0 \/ ((r < 0) = (i < 0))

\* C8: div raises DivideByZero for a zero divisor whatever the dividend,
\* Overflow exactly for MIN div -1, and otherwise delivers the quotient
\* rounded toward zero.
C8_Divide ==
  Operation = "div" =>
    IF OperandJ = 0 THEN Raises("DivideByZero")
    ELSE IF OperandI = MinInteger /\ OperandJ = -1 THEN Raises("Overflow")
    ELSE \E q \in IntegerRange :
           /\ RoundsTowardZero(q, OperandI, OperandJ)
           /\ Delivers(Integer(q))

\* -7 div 2 has delivered -3 to halt.
C8_Witness ==
  /\ program = Producer("div", <<Lit(-7), Lit(2)>>)
  /\ Entered("halt", <<Integer(-3)>>)

\* An Integer read as an unsigned word.
Unsigned(i) == i % Pow2(WordBits)

\* Every state of a run of a predicate that takes `arm`.
Takes(arm) ==
  /\ mode # "panic"
  /\ mode = "apply" =>
       /\ answer.parameters = EMPTY
       /\ \/ answer.f.kind = "continuation"
             /\ answer.f.c = ApplyE(Var(arm), <<>>)
          \/ answer.f = External(arm)
  /\ mode = "eval" /\ expression # program =>
       expression = ApplyE(Var(arm), <<>>)
  /\ mode = "halted" => Entered(arm, EMPTY)

\* C9: rangechk i j takes the then continuation if and only if i < j when
\* both are read as unsigned words, and the else continuation otherwise.
C9_RangeCheckUnsigned ==
  Operation = "rangechk" =>
    IF Unsigned(OperandI) < Unsigned(OperandJ) THEN Takes("then")
                                               ELSE Takes("else")

\* rangechk -1 0 has taken the else continuation: -1 is the largest word.
C9_Witness ==
  /\ program = Predicate("rangechk", <<Lit(-1), Lit(0)>>)
  /\ Entered("else", EMPTY)

\* C10, as stated: rangechk i j takes then exactly when (j < 0, i < 0 and
\* i < j) or (j >= 0, i >= 0 and i < j), and else in every other case, in
\* particular when j < 0 and i >= 0.
C10_AsStated ==
  Operation = "rangechk" =>
    IF \/ OperandJ < 0 /\ OperandI < 0 /\ OperandI < OperandJ
       \/ OperandJ >= 0 /\ OperandI >= 0 /\ OperandI < OperandJ
      THEN Takes("then")
      ELSE Takes("else")

\* C10, amended: rangechk i j takes then exactly when (j < 0 and i >= 0) or
\* (j < 0, i < 0 and i < j) or (j >= 0, i >= 0 and i < j), and else in
\* every other case, in particular when j >= 0 and i < 0.
C10_Amended ==
  Operation = "rangechk" =>
    IF \/ OperandJ < 0 /\ OperandI >= 0
       \/ OperandJ < 0 /\ OperandI < 0 /\ OperandI < OperandJ
       \/ OperandJ >= 0 /\ OperandI >= 0 /\ OperandI < OperandJ
      THEN Takes("then")
      ELSE Takes("else")

\* rangechk 1 -1 has taken the then continuation.
C10_Witness ==
  /\ program = Predicate("rangechk", <<Lit(1), Lit(-1)>>)
  /\ Entered("then", EMPTY)

---------------------------------------------------------------------------
(* Programs of the evaluator's rules and of eq and boxed, and their        *)
(* specification.                                                          *)

\* Largest argument of the even/odd term.
MaxEvenOdd == 6

\* The two arms of a predicate or of a Switch.
Then == ApplyE(Var("then"), <<>>)
Else == ApplyE(Var("else"), <<>>)

Plain(value) == Field(OffsetP(0), value)

Zero == RealV(F32(FALSE, 0))
MinusZero == RealV(F32(TRUE, 0))

\* Field lists of the Record expressions.
FieldLists ==
  {<<>>, <<Plain(Lit(10)), Plain(Lit(20))>>,
   <<Plain(Lit(10)), Plain(Lit(21))>>, <<Plain(Zero), Plain(MinusZero)>>,
   <<Plain(Var("a")), Plain(Var("g"))>>}

\* Two Records built by two Record expressions, then compared.
RecordComparison(op, fields1, fields2) ==
  RecordE(fields1, "p",
    RecordE(fields2, "q", Predicate(op, <<Var("p"), Var("q")>>)))

RecordComparisons ==
  {RecordComparison(op, fields1, fields2) :
     op \in {"ieql", "ineq"}, fields1 \in FieldLists, fields2 \in FieldLists}

\* Two Functions compared.
FunctionComparisons ==
  {Predicate(op, <<Var(f1), Var(f2)>>) :
     op \in {"ieql", "ineq"}, f1 \in {"g", "halt"}, f2 \in {"g", "halt"}}

\* Atomic values of the programs below: of every kind a literal or a
\* binding of the initial environment gives.
Atoms ==
  {Lit(-1), Lit(0), Lit(1), Lit(2), Lit(3), Zero, StringV(<<97>>),
   Var("g"), Var("a"), Var("u"), Var("b")}

\* A Record of one field, with an access path on a value.
RecordOfPath(value, access_path) ==
  RecordE(<<Field(access_path, value)>>, "w", Halt(<<Var("w")>>))

\* A Record whose field is reached through a Record bound before it.
RecordThroughRecord(access_path) ==
  RecordE(<<Plain(Lit(10)), Plain(Lit(20))>>, "r",
    RecordOfPath(Var("r"), access_path))

AccessPaths ==
  {OffsetP(0), OffsetP(1), SelectP(0, OffsetP(0)), SelectP(1, OffsetP(0)),
   SelectP(1, OffsetP(1))}

RecordPrograms ==
       {RecordOfPath(value, access_path) :
          value \in Atoms, access_path \in AccessPaths}
  \cup {RecordThroughRecord(access_path) : access_path \in AccessPaths}

SwitchPrograms == {SwitchE(value, <<Then, Else>>) : value \in Atoms}

\* S3 of the specification, for any field lists, offset and index.
SelectOfRecord(fields, offset, i) ==
  RecordE(fields, "r",
    OffsetE(offset, Var("r"), "r",
      SelectE(i, Var("r"), "y", Halt(<<Var("y")>>))))

\* Two Selects in a row into the same variable.
SelectTwice(fields, i, j) ==
  RecordE(fields, "r",
    SelectE(i, Var("r"), "y",
      SelectE(j, Var("r"), "y", Halt(<<Var("y")>>))))

SelectPrograms ==
       {SelectOfRecord(fields, offset, i) :
          fields \in FieldLists \ {<<>>}, offset \in 0..1, i \in 0..1}
  \cup {SelectTwice(fields, i, j) :
          fields \in FieldLists \ {<<>>}, i \in 0..1, j \in 0..1}
  \cup {SelectE(1, value, "y", Halt(<<Var("y")>>)) : value \in Atoms}

ApplyPrograms ==
  {ApplyE(function, arguments) :
     function \in Atoms \cup {Var("halt")},
     arguments \in {<<>>, <<Lit(1)>>, <<Var("a"), Lit(2)>>,
                    <<Lit(2), Var("a")>>}}

\* S4 of the specification: even and odd, each defined through the other.
\* even(n) hands 1 to halt for n = 0 and otherwise calls odd(n - 1); odd(n)
\* hands 0 to halt for n = 0 and otherwise calls even(n - 1).
Parity(name, other, at_zero) ==
  FunctionDefinition(name, <<"n">>,
    PrimitiveOpE("ieql", <<Var("n"), Lit(0)>>, <<>>, <<
      Halt(<<Lit(at_zero)>>),
      PrimitiveOpE("-", <<Var("n"), Lit(1)>>, <<"m">>, <<
        ApplyE(Var(other), <<Var("m")>>)>>)>>))

EvenOddDefinitions == <<Parity("even", "odd", 1), Parity("odd", "even", 0)>>

EvenOdd(n) == FixE(EvenOddDefinitions, ApplyE(Var("even"), <<Lit(n)>>))

FixPrograms == {EvenOdd(n) : n \in 0..MaxEvenOdd}

\* boxed on an atom, on a Record, and on the Exception a handler receives.
BoxedOnAtom(value) == Predicate("boxed", <<value>>)

BoxedOnRecord(fields) ==
  RecordE(fields, "w", Predicate("boxed", <<Var("w")>>))

BoxedOnException ==
  FixE(<<FunctionDefinition("f", <<"e">>, Predicate("boxed", <<Var("e")>>))>>,
       Handler("f"))

BoxedPrograms ==
       {BoxedOnAtom(value) : value \in Atoms}
  \cup {BoxedOnRecord(fields) : fields \in FieldLists}
  \cup {BoxedOnException}

\* A primitive called with `count` continuation arms.
WithArms(op, operands, count) ==
  PrimitiveOpE(op, operands, <<"x">>, [n \in 1..count |-> Halt(<<>>)])

\* Producers and predicates with operands of the form the primitive takes.
WellFormedProducers ==
  {<<"+", <<Lit(1), Lit(2)>>>>, <<"div", <<Lit(1), Lit(2)>>>>,
   <<"div", <<Lit(1), Lit(0)>>>>, <<"~", <<Lit(1)>>>>,
   <<"!", <<Var("a")>>>>, <<"subscript", <<Var("a"), Lit(0)>>>>,
   <<":=", <<Var("a"), Lit(1)>>>>, <<"update", <<Var("a"), Lit(0), Lit(1)>>>>,
   <<"store", <<Var("b"), Lit(0), Lit(1)>>>>, <<"makeref", <<Lit(0)>>>>,
   <<"makerefunboxed", <<Lit(0)>>>>, <<"alength", <<Var("a")>>>>,
   <<"gethdlr", <<>>>>, <<"sethdlr", <<Var("g")>>>>}

WellFormedPredicates ==
  {<<"ieql", <<Lit(1), Lit(2)>>>>, <<"<", <<Lit(1), Lit(2)>>>>,
   <<"rangechk", <<Lit(1), Lit(2)>>>>, <<"boxed", <<Var("a")>>>>}

\* Operands of a form the primitive does not take, with the number of
\* continuation arms it does take.
IllFormed ==
  {<<"+", <<Lit(1), Var("a")>>, 1>>, <<"+", <<Lit(1)>>, 1>>,
   <<"div", <<Var("a"), Lit(0)>>, 1>>, <<"~", <<Zero>>, 1>>,
   <<"<", <<Lit(1), Var("g")>>, 2>>, <<"rangechk", <<Zero, Lit(2)>>, 2>>,
   <<"ieql", <<Lit(1)>>, 2>>, <<"!", <<Lit(1)>>, 1>>,
   <<"subscript", <<Var("a"), Var("a")>>, 1>>,
   <<":=", <<Lit(1), Lit(2)>>, 1>>, <<"unboxedassign", <<Var("a"), Var("g")>>, 1>>,
   <<"update", <<Var("a"), Var("g"), Lit(1)>>, 1>>,
   <<"update", <<Var("u"), Lit(0), Var("g")>>, 1>>,
   <<"store", <<Var("a"), Lit(0), Lit(1)>>, 1>>,
   <<"makerefunboxed", <<Var("g")>>, 1>>, <<"alength", <<Lit(1)>>, 1>>,
   <<"gethdlr", <<Lit(1)>>, 1>>, <<"sethdlr", <<Lit(0)>>, 1>>,
   <<"boxed", <<>>, 2>>}

ShapePrograms ==
       {WithArms(p[1], p[2], count) :
          p \in WellFormedProducers, count \in {0, 2}}
  \cup {WithArms(p[1], p[2], count) :
          p \in WellFormedPredicates, count \in {0, 1, 3}}
  \cup {WithArms(p[1], p[2], p[3]) : p \in IllFormed}

\* x bound to i, then e.
BindX(i, e) == PrimitiveOpE("+", <<Lit(i), Lit(0)>>, <<"x">>, <<e>>)

\* A function whose body names x, defined where x is 1 and called where x
\* is 2.
ScopeCall ==
  BindX(1,
    FixE(<<FunctionDefinition("f", <<"n">>, Halt(<<Var("x")>>))>>,
      BindX(2, ApplyE(Var("f"), <<Lit(0)>>))))

\* The same function, installed as the handler and invoked by a raise.
ScopeHandler ==
  BindX(1,
    FixE(<<FunctionDefinition("f", <<"e">>, Halt(<<Var("x")>>))>>,
      BindX(2, Handler("f"))))

\* A function k passed to a function f, which binds x to 5 and calls it.
ScopePassed ==
  BindX(1,
    FixE(<<FunctionDefinition("k", <<>>, Halt(<<Var("x")>>)),
           FunctionDefinition("f", <<"c">>,
                              BindX(5, ApplyE(Var("c"), <<>>)))>>,
      ApplyE(Var("f"), <<Var("k")>>)))

\* A continuation arm in a function body: it names x, the formal n and its
\* own result variable m.
ScopeArm ==
  BindX(1,
    FixE(<<FunctionDefinition("f", <<"n">>,
             PrimitiveOpE("+", <<Var("n"), Lit(1)>>, <<"m">>,
                          <<Halt(<<Var("x"), Var("n"), Var("m")>>)>>))>>,
      BindX(2, ApplyE(Var("f"), <<Lit(10)>>))))

\* A formal parameter of the name of a variable bound outside.
ScopeShadow ==
  BindX(1,
    FixE(<<FunctionDefinition("f", <<"x">>, Halt(<<Var("x")>>))>>,
      ApplyE(Var("f"), <<Lit(7)>>)))

ScopePrograms ==
  {ScopeCall, ScopeHandler, ScopePassed, ScopeArm, ScopeShadow}

\* A function of the formal parameters `formals` whose body hands the
\* variables `named` to halt, called with `actuals` where x is 1.
ArityCall(formals, named, actuals) ==
  BindX(1,
    FixE(<<FunctionDefinition("f", formals,
                              Halt([n \in 1..Len(named) |-> Var(named[n])]))>>,
      ApplyE(Var("f"), actuals)))

\* A primitive with one result and the result variables wl, whose arm hands
\* the variables `named` to halt, where x is 1.
ArityArm(wl, named) ==
  BindX(1,
    PrimitiveOpE("+", <<Lit(1), Lit(2)>>, wl,
                 <<Halt([n \in 1..Len(named) |-> Var(named[n])])>>))

\* Fewer actuals than formals, more, and as many; the surplus formal is
\* unbound outside (m) or bound outside (x).
ArityPrograms ==
  {ArityCall(<<"n", "m">>, <<"n">>, <<Lit(5)>>),
   ArityCall(<<"n", "m">>, <<"m">>, <<Lit(5)>>),
   ArityCall(<<"n", "x">>, <<"n", "x">>, <<Lit(5)>>),
   ArityCall(<<"n">>, <<"n">>, <<Lit(5), Lit(6)>>),
   ArityCall(<<>>, <<"x">>, <<Lit(5), Lit(6)>>),
   ArityCall(<<"n", "m">>, <<"n", "m">>, <<Lit(5), Lit(6)>>),
   ArityCall(<<"n", "m">>, <<"x">>, <<>>),
   ArityArm(<<>>, <<"x">>), ArityArm(<<"y", "x">>, <<"y", "x">>),
   ArityArm(<<"y", "m">>, <<"y">>), ArityArm(<<"y", "m">>, <<"m">>)}

RulePrograms ==
  RecordComparisons \cup FunctionComparisons \cup RecordPrograms
    \cup SwitchPrograms \cup SelectPrograms \cup ApplyPrograms
    \cup FixPrograms \cup BoxedPrograms \cup ShapePrograms
    \cup ScopePrograms \cup ArityPrograms

InitRules == \E p \in RulePrograms : Start(p)

NextRules ==
  \/ EvaluateRecord
  \/ EvaluateSelect
  \/ EvaluateOffset
  \/ EvaluateApply
  \/ EvaluateFix
  \/ EvaluateSwitch
  \/ EvaluatePrimitiveOp
  \/ CallContinuation
  \/ CallFunction
  \/ CallExternal
  \/ CallRaise
  \/ CallSetHandler

\* `evaluate` runs an expression until a function of the driver is entered
\* or the interpreter panics: a step that can be taken is taken.
SpecRules == InitRules /\ [][NextRules]_vars /\ WF_vars(NextRules)

---------------------------------------------------------------------------
(* Properties of eq and of the evaluator's rules, under SpecRules.         *)

\* The run does not panic, and the function of the driver it enters, if it
\* has entered one, is `name` with `parameters`.
Ends(name, parameters) ==
  /\ mode # "panic"
  /\ mode = "halted" => Entered(name, parameters)

\* C11: two Records built by two Record expressions are never eq, whatever
\* their fields: ieql on them takes the else continuation (and ineq the
\* then continuation).
C11_DistinctRecordsNeverEq ==
  \A fields1 \in FieldLists, fields2 \in FieldLists :
    /\ program = RecordComparison("ieql", fields1, fields2) =>
         Ends("else", EMPTY)
    /\ program = RecordComparison("ineq", fields1, fields2) =>
         Ends("then", EMPTY)

\* C12: ieql or ineq on two Functions aborts the interpreter: no
\* continuation and no handler is invoked after the comparison.
C12_FunctionEqAborts ==
  program \in FunctionComparisons =>
    \/ mode = "eval" /\ expression = program
    \/ mode = "panic"

\* C13: a Record expression with a pair whose access path does not apply to
\* its value raises InvalidAccess to the handler without evaluating its
\* body, and no Record with an Exception as a field is ever bound.
C13_RecordInvalidAccess ==
  /\ \A value \in Atoms, access_path \in AccessPaths \ {OffsetP(0)} :
       program = RecordOfPath(value, access_path) =>
         Ends("h", <<Exception("InvalidAccess")>>)
  /\ program \in RecordPrograms =>
       \A env \in Environments : \A x \in DOMAIN env :
         env[x].tag = "Record" =>
           \A n \in 1..Len(env[x].values) :
             env[x].values[n].tag # "Exception"

\* C14: Switch(v, arms) evaluates exactly arms[i] in the unchanged
\* environment when V(v) is Integer(i) with 0 <= i < |arms|, and in every
\* other case raises IndexOutOfBounds to the handler, evaluating no arm.
C14_Switch ==
  \A value \in Atoms :
    program = SwitchE(value, <<Then, Else>>) =>
      LET d == value_to_denotable_value(InitialEnvironment, value)
      IN  IF d.tag = "Integer" /\ d.i \in 0..1
            THEN /\ Ends(IF d.i = 0 THEN "then" ELSE "else", EMPTY)
                 /\ mode = "eval" /\ expression # program =>
                      /\ expression = program.arms[d.i + 1]
                      /\ environment = InitialEnvironment
            ELSE Ends("h", <<Exception("IndexOutOfBounds")>>)

\* C15: Select(i, v, w, e) on a Record{f, idx} with idx + i inside f goes
\* on to e with w bound to f[idx + i] and every other binding as it was;
\* on a value that is not a Record it raises InvalidAccess, which reaches
\* the handler without e being evaluated.
C15_Select ==
  /\ [][(mode = "eval" /\ expression.t = "Select"
           /\ Bound(environment, expression.value)) =>
          LET d == value_to_denotable_value(environment, expression.value)
              w == expression.variable
              at == d.idx + expression.location + 1
          IN  IF d.tag # "Record"
                THEN /\ mode' = "apply"
                     /\ answer' = as_answer("InvalidAccess")
                     /\ store' = store
                ELSE at \in DOMAIN d.values =>
                       /\ mode' = "eval"
                       /\ expression' = expression.expression
                       /\ DOMAIN environment' = DOMAIN environment \cup {w}
                       /\ environment'[w] = d.values[at]
                       /\ \A x \in DOMAIN environment \ {w} :
                            environment'[x] = environment[x]]_vars
  /\ [](\A value \in Atoms :
          program = SelectE(1, value, "y", Halt(<<Var("y")>>)) =>
            Ends("h", <<Exception("InvalidAccess")>>))

\* C16: Apply(f, args) with V(f) a Function hands that function the list of
\* V(arg), in order, as an Answer for the store as it is; with V(f) any
\* other value it raises Undefined, which reaches the handler and no other
\* function.
C16_Apply ==
  /\ [][(mode = "eval" /\ expression.t = "Apply"
           /\ Bound(environment, expression.function)
           /\ \A n \in 1..Len(expression.arguments) :
                Bound(environment, expression.arguments[n])) =>
          LET d == value_to_denotable_value(environment, expression.function)
              arguments == expression.arguments
          IN  /\ mode' = "apply"
              /\ store' = store
              /\ IF d.tag = "Function"
                   THEN /\ answer'.f = d.f
                        /\ Len(answer'.parameters) = Len(arguments)
                        /\ \A n \in 1..Len(arguments) :
                             answer'.parameters[n] =
                               value_to_denotable_value(environment,
                                                        arguments[n])
                   ELSE /\ answer'.f.kind = "raise"
                        /\ answer'.parameters = <<Exception("Undefined")>>]_vars
  /\ [](program \in ApplyPrograms =>
          LET d == value_to_denotable_value(InitialEnvironment,
                                            program.function)
              arguments == program.arguments
          IN  IF d.tag = "Function"
                THEN Ends(d.f.name,
                          [n \in 1..Len(arguments) |->
                             value_to_denotable_value(InitialEnvironment,
                                                      arguments[n])])
                ELSE Ends("h", <<Exception("Undefined")>>))

\* halt has received [Array a, Integer 2] from Apply(halt, [Var a, Int 2]).
C16_Witness ==
  /\ program = ApplyE(Var("halt"), <<Var("a"), Lit(2)>>)
  /\ Entered("halt", <<InitialEnvironment["a"], Integer(2)>>)

\* In an environment of the even/odd term, the name of definition j denotes
\* the closure of definition j over the whole list of definitions.
DenotesDefinition(env, j) ==
  LET name == EvenOddDefinitions[j].name
  IN  /\ name \in DOMAIN env
      /\ env[name].tag = "Function"
      /\ env[name].f.kind = "fix"
      /\ env[name].f.function_def = EvenOddDefinitions[j]
      /\ env[name].f.fl_list = EvenOddDefinitions

\* C17: in the body of a Fix and in every function body, at any depth of
\* calls, each name denotes the closure of its own definition; the even/odd
\* term applied to n terminates with halt receiving Integer(1) for an even
\* n and Integer(0) for an odd n.
C17_MutualRecursion ==
  /\ [](program \in FixPrograms /\ ~(mode = "eval" /\ expression = program) =>
          \A env \in Environments : \A j \in 1..2 : DenotesDefinition(env, j))
  /\ \A n \in 0..MaxEvenOdd :
       /\ [](program = EvenOdd(n) => mode # "panic")
       /\ program = EvenOdd(n) ~>
            Entered("halt", <<Integer(IF n % 2 = 0 THEN 1 ELSE 0)>>)

\* even(6) has delivered 1 to halt.
C17_Witness ==
  /\ program = EvenOdd(MaxEvenOdd)
  /\ Entered("halt", <<Integer(1)>>)

\* C20: boxed v with continuations [then, else] takes else for an Integer
\* or a Real and then for a value of every other kind (Record, String,
\* Array, UnboxedArray, ByteArray, Function, Exception), and never aborts.
C20_Boxed ==
  /\ \A value \in Atoms :
       program = BoxedOnAtom(value) =>
         Ends(IF value_to_denotable_value(InitialEnvironment, value).tag
                   \in {"Integer", "Real"}
                THEN "else" ELSE "then",
              EMPTY)
  /\ \A fields \in FieldLists :
       program = BoxedOnRecord(fields) => Ends("then", EMPTY)
  /\ program = BoxedOnException => Ends("then", EMPTY)

\* C22: a primitive called with a number of continuations other than its
\* shape's (1 for a producer, 2 for a predicate), or with operands of a form
\* it does not take, aborts: no continuation and no handler is invoked; div
\* by 0 with a number of continuations other than 1 is such a call.
C22_ShapeMismatchAborts ==
  program \in ShapePrograms =>
    \/ mode = "eval" /\ expression = program
    \/ mode = "panic"

\* The continuation closures of an Answer: the one it calls, or the one
\* the closure it calls hands its result to.
ContinuationsOf(a) ==
  IF a.f.kind = "continuation" THEN {a.f}
  ELSE IF "continuation" \in DOMAIN a.f THEN {a.f.continuation}
  ELSE {}

\* The first Min(|variables|, |values|) variables.
Paired(variables, values) ==
  {variables[n] : n \in 1..Min(Len(variables), Len(values))}

\* What halt receives in each of the scope programs under lexical scoping.
LexicalResult ==
  CASE program = ScopeCall -> <<Integer(1)>>
    [] program = ScopeHandler -> <<Integer(1)>>
    [] program = ScopePassed -> <<Integer(1)>>
    [] program = ScopeArm -> <<Integer(1), Integer(10), Integer(11)>>
    [] program = ScopeShadow -> <<Integer(7)>>

\* C28: the closure of a Fix definition and the closure of a PrimitiveOp
\* arm capture the environment in which the Fix or the PrimitiveOp is
\* evaluated; wherever it is invoked from, the body is evaluated in that
\* environment, extended with the functions of the Fix and then with the
\* formal parameters or result variables, and in no binding made later at
\* the place of the call.
C28_LexicalScope ==
  /\ [][(mode = "eval" /\ expression.t = "Fix") =>
         \A n \in 1..Len(expression.function_defs) :
           LET f == environment'[expression.function_defs[n].name].f
           IN  /\ f.r1_environment = environment
               /\ f.function_def = expression.function_defs[n]]_vars
  /\ [][(mode = "eval" /\ expression.t = "PrimitiveOp"
          /\ mode' = "apply") =>
         \A c \in ContinuationsOf(answer') :
           /\ c.environment = environment
           /\ c.wl = expression.variables]_vars
  /\ [][(mode = "apply" /\ answer.f.kind = "fix") =>
         LET r1 == answer.f.r1_environment
             formals == Paired(answer.f.function_def.formal_parameters,
                               answer.parameters)
             names == {answer.f.fl_list[n].name :
                         n \in 1..Len(answer.f.fl_list)}
         IN  /\ mode' = "eval"
             /\ expression' = answer.f.function_def.body
             /\ DOMAIN environment' = DOMAIN r1 \cup names \cup formals
             /\ \A x \in DOMAIN environment' \ formals :
                  IF x \in names
                    THEN /\ environment'[x].f.r1_environment = r1
                         /\ environment'[x].f.function_def.name = x
                    ELSE environment'[x] = r1[x]]_vars
  /\ [][(mode = "apply" /\ answer.f.kind = "continuation") =>
         LET results == Paired(answer.f.wl, answer.parameters)
         IN  /\ mode' = "eval"
             /\ expression' = answer.f.c
             /\ DOMAIN environment' = DOMAIN answer.f.environment \cup results
             /\ \A x \in DOMAIN environment' \ results :
                  environment'[x] = answer.f.environment[x]]_vars
  /\ [](program \in ScopePrograms => Ends("halt", LexicalResult))

\* The function called where x is 2 has handed halt the 1 of its definition.
C28_Witness ==
  /\ program = ScopeCall
  /\ Entered("halt", <<Integer(1)>>)

\* env' is `enclosing` with the first Min(|formals|, |actuals|) formals
\* bound to their actuals; a formal beyond them is bound as in `enclosing`,
\* or is unbound when `enclosing` does not bind it.
BindsThePairs(env, enclosing, formals, actuals) ==
  LET paired == Paired(formals, actuals)
  IN  /\ DOMAIN env = DOMAIN enclosing \cup paired
      /\ \A k \in 1..Min(Len(formals), Len(actuals)) :
           (\A l \in (k + 1)..Min(Len(formals), Len(actuals)) :
              formals[l] # formals[k]) => env[formals[k]] = actuals[k]
      /\ \A x \in DOMAIN enclosing \ paired : env[x] = enclosing[x]

\* The arity programs whose body names a formal that was left unbound.
ArityUnbound ==
  {ArityCall(<<"n", "m">>, <<"m">>, <<Lit(5)>>),
   ArityArm(<<"y", "m">>, <<"m">>)}

\* What halt receives in each of the other arity programs.
ArityResult ==
  CASE program = ArityCall(<<"n", "m">>, <<"n">>, <<Lit(5)>>) ->
         <<Integer(5)>>
    [] program = ArityCall(<<"n", "x">>, <<"n", "x">>, <<Lit(5)>>) ->
         <<Integer(5), Integer(1)>>
    [] program = ArityCall(<<"n">>, <<"n">>, <<Lit(5), Lit(6)>>) ->
         <<Integer(5)>>
    [] program = ArityCall(<<>>, <<"x">>, <<Lit(5), Lit(6)>>) ->
         <<Integer(1)>>
    [] program = ArityCall(<<"n", "m">>, <<"n", "m">>, <<Lit(5), Lit(6)>>) ->
         <<Integer(5), Integer(6)>>
    [] program = ArityCall(<<"n", "m">>, <<"x">>, <<>>) -> <<Integer(1)>>
    [] program = ArityArm(<<>>, <<"x">>) -> <<Integer(1)>>
    [] program = ArityArm(<<"y", "x">>, <<"y", "x">>) ->
         <<Integer(3), Integer(1)>>
    [] program = ArityArm(<<"y", "m">>, <<"y">>) -> <<Integer(3)>>

\* C29: a function of a Fix or a continuation arm invoked with a number of
\* values other than its number of formal variables raises nothing and does
\* not abort at the call: the body is evaluated with the first
\* Min(|formals|, |actuals|) pairs bound, the other actuals ignored, and a
\* formal beyond them bound as in the enclosing environment or unbound.
C29_ArityMismatchBindsThePairs ==
  /\ [][(mode = "apply" /\ answer.f.kind = "fix") =>
         /\ mode' = "eval"
         /\ expression' = answer.f.function_def.body
         /\ store' = store
         /\ BindsThePairs(environment',
                          g(answer.f.r1_environment, answer.f.fl_list),
                          answer.f.function_def.formal_parameters,
                          answer.parameters)]_vars
  /\ [][(mode = "apply" /\ answer.f.kind = "continuation") =>
         /\ mode' = "eval"
         /\ expression' = answer.f.c
         /\ store' = store
         /\ BindsThePairs(environment', answer.f.environment, answer.f.wl,
                          answer.parameters)]_vars
  /\ [](program \in ArityPrograms =>
          IF program \in ArityUnbound
            THEN /\ mode # "halted"
                 /\ mode = "apply" => answer.f.kind # "raise"
            ELSE Ends("halt", ArityResult))

\* f(n, x) called with the one value 5 where x is 1 has handed halt 5 and 1.
C29_Witness ==
  /\ program = ArityCall(<<"n", "x">>, <<"n", "x">>, <<Lit(5)>>)
  /\ Entered("halt", <<Integer(5), Integer(1)>>)

---------------------------------------------------------------------------
(* Environment::bind and the methods of Store, called directly.            *)

\* The state outside of a run of `evaluate`, for an environment and a store.
Outside(env, s) ==
  /\ mode = "call"
  /\ environment = env
  /\ store = s
  /\ expression = NoExpression
  /\ program = NoExpression
  /\ answer = NoAnswer
  /\ overflow_checks \in BOOLEAN
  /\ installed = NoFunction
  /\ call = NoCall

\* Values of every kind, with those that are eq without being the same.
DValues ==
  {Integer(1), Integer(2), Real(F32(FALSE, 0)), Real(F32(TRUE, 0)),
   Real(NaN(FALSE)), Real(NaN(TRUE)), String(<<>>), String(<<97>>),
   Record(<<Real(F32(FALSE, 0))>>, 0), Record(<<Real(F32(TRUE, 0))>>, 0),
   Function(External("g")), Array(0, 2), Exception("Overflow")}

\* `environment.bind(variable, value)`; the result takes the place of the
\* receiver.
Bind ==
  /\ mode = "call"
  /\ \E variable \in {"v", "u"}, value \in DValues :
       /\ environment' = bind(environment, variable, value)
       /\ call' = [method |-> "bind", receiver |-> environment,
                   variable |-> variable, value |-> value]
  /\ UNCHANGED <<mode, expression, answer, store, overflow_checks, program,
                 installed>>

\* Environment::new(), then any sequence of binds.
InitEnvironment == Outside(NoEnvironment, InitialStore)

NextEnvironment == Bind

SpecEnvironment == InitEnvironment /\ [][NextEnvironment]_vars

\* Locations of the calls: the handler cell, the cell at
\* next_unused_address, and the first one past the end of the store.
Locations ==
  {InitialStore.exception_handler, InitialStore.next_unused_address,
   StoreLength}

\* A call of a method that returns a Store; the result takes the place of
\* the receiver.  Indexing either Vec outside its length panics.
StoreCall(method, idx, value, result) ==
  /\ call' = [method |-> method, receiver |-> store, idx |-> idx,
              value |-> value]
  /\ IF InBounds(store, idx)
       THEN store' = result /\ mode' = mode
       ELSE store' = store /\ mode' = "panic"
  /\ UNCHANGED <<expression, environment, answer, overflow_checks, program,
                 installed>>

\* `store.update(idx, value)`
Update ==
  /\ mode = "call"
  /\ \E idx \in Locations,
        value \in {Integer(7), Function(External("g")), Array(0, 2)} :
       StoreCall("update", idx, value, update(store, idx, value))

\* `store.update_integer(idx, value)`
UpdateInteger ==
  /\ mode = "call"
  /\ \E idx \in Locations, value \in {7, -1} :
       StoreCall("update_integer", idx, value,
                 update_integer(store, idx, value))

InitStore == Outside(NoEnvironment, InitialStore)

NextStore == Update \/ UpdateInteger

SpecStore == InitStore /\ [][NextStore]_vars

---------------------------------------------------------------------------
(* Properties of Environment::bind, under SpecEnvironment, and of the      *)
(* methods of Store, under SpecStore.                                      *)

\* C18: bind(v, d) yields an environment in which v is bound to d, also
\* after an earlier bind of v and also when v was bound to a value eq to d,
\* and in which every other variable is bound as in the receiver.
C18_BindLaws ==
  call.method = "bind" =>
    /\ DOMAIN environment = DOMAIN call.receiver \cup {call.variable}
    /\ environment[call.variable] = call.value
    /\ \A u \in DOMAIN call.receiver \ {call.variable} :
         environment[u] = call.receiver[u]

\* The store differs from the receiver of the call in nothing but the
\* tagged cells and the integer cells at the locations given.
Frame(tagged, integers) ==
  /\ DOMAIN store.values = DOMAIN call.receiver.values
  /\ DOMAIN store.integer_values = DOMAIN call.receiver.integer_values
  /\ \A l \in DOMAIN store.values \ tagged :
       store.values[l] = call.receiver.values[l]
  /\ \A l \in DOMAIN store.integer_values \ integers :
       store.integer_values[l] = call.receiver.integer_values[l]
  /\ store.next_unused_address = call.receiver.next_unused_address
  /\ store.exception_handler = call.receiver.exception_handler

\* C19: update(loc, v) with v not an Integer returns a store in which
\* fetch(loc) is v, and update_integer(loc, i) one in which
\* fetch_integer(loc) is Integer(i); nothing else differs from the receiver.
C19_StoreUpdateFrame ==
  mode # "panic" =>
    /\ call.method = "update" /\ call.value.tag # "Integer" =>
         /\ fetch(store, call.idx) = call.value
         /\ Frame({call.idx}, {})
    /\ call.method = "update_integer" =>
         /\ fetch_integer(store, call.idx) = Integer(call.value)
         /\ Frame({}, {call.idx})

\* update has replaced the Function in the handler cell by an Array.
C19_Witness ==
  /\ call.method = "update"
  /\ call.idx = InitialStore.exception_handler
  /\ call.receiver.values[call.idx].tag = "Function"
  /\ store.values[call.idx] = Array(0, 2)

---------------------------------------------------------------------------
(* resolve_field (cps/denotable_value.rs), called directly.                *)

\* Depth of the access paths: the number of Selects before the Offset.
MaxPath == 2

\* Access paths of at most `depth` Selects.
RECURSIVE Paths(_)
Paths(depth) ==
  IF depth = 0 THEN {OffsetP(n) : n \in 0..2}
  ELSE Paths(depth - 1)
         \cup {SelectP(k, p) : k \in 0..1, p \in Paths(depth - 1)}

\* Values of every kind, with Records inside Records.
ResolveValues ==
  DValues \cup
    {Record(<<>>, 0),
     Record(<<Integer(10), Integer(20), Integer(30)>>, 1),
     Record(<<Integer(10), Record(<<Integer(20), Array(0, 2)>>, 1)>>, 0),
     Record(<<Record(<<Record(<<Integer(1), String(<<97>>)>>, 0)>>, 0),
              Function(External("g"))>>, 0)}

\* `resolve_field(value, access_path)`
Resolve ==
  /\ mode = "call"
  /\ \E value \in ResolveValues, access_path \in Paths(MaxPath) :
       LET resolved == resolve_field(value, access_path)
       IN  /\ call' = [method |-> "resolve_field", value |-> value,
                       access_path |-> access_path,
                       result |-> resolved.value]
           /\ mode' = IF resolved.panic THEN "panic" ELSE mode
  /\ UNCHANGED <<expression, environment, answer, store, overflow_checks,
                 program, installed>>

InitResolve == Outside(NoEnvironment, InitialStore)

NextResolve == Resolve

SpecResolve == InitResolve /\ [][NextResolve]_vars

\* C24: resolve(x, Offset(0)) is x for a value x of every kind;
\* resolve(Record{f, i}, Offset(j)) is Record{f, i + j}; and
\* resolve(Record{f, i}, Select{k, rest}) is resolve(f[i + k], rest), for
\* access paths of any depth up to the bound.
C24_ResolveLaws ==
  call.method = "resolve_field" /\ mode # "panic" =>
    LET x == call.value
        path == call.access_path
    IN  /\ path = OffsetP(0) => call.result = x
        /\ x.tag = "Record" /\ path.path = "Offset" =>
             call.result = Record(x.values, x.idx + path.n)
        /\ x.tag = "Record" /\ path.path = "Select" =>
             call.result =
               resolve_field(x.values[x.idx + path.offset + 1],
                             path.access_path).value

\* Two Selects and an Offset have reached the Array in the inner Record.
C24_Witness ==
  /\ mode = "call"
  /\ call.method = "resolve_field"
  /\ call.value.tag = "Record"
  /\ call.access_path = SelectP(1, SelectP(0, OffsetP(0)))
  /\ call.result = Array(0, 2)

---------------------------------------------------------------------------
(* The entry point `evaluate` (mod.rs), called with lists of variables and *)
(* of values that may differ in length, on programs that name variables    *)
(* the lists may leave unbound.                                            *)

\* The bindings the driver may hand to `evaluate`, in order.
EntryVariables == <<"halt", "a", "g">>
EntryValues ==
  <<Function(External("halt")), Array(0, 2), Function(External("g"))>>

Prefixes(list) == {SubSeq(list, 1, k) : k \in 0..Len(list)}

\* A variable or a label of each entry name, and of a name never bound.
Names ==
  {VariableV(x) : x \in {"halt", "a", "g", "z"}}
    \cup {LabelV(x) : x \in {"halt", "g", "z"}}

\* One program for each place where a rule looks a name up: in the rule
\* itself, in a continuation arm, and in the body of a function.
LookupPrograms ==
       {Halt(<<v>>) : v \in Names}
  \cup {ApplyE(v, <<Var("z")>>) : v \in Names}
  \cup {SelectE(0, v, "y", Halt(<<>>)) : v \in Names}
  \cup {OffsetE(0, v, "y", Halt(<<>>)) : v \in Names}
  \cup {SwitchE(v, <<Halt(<<>>)>>) : v \in Names}
  \cup {RecordE(<<Plain(Lit(1)), Plain(v)>>, "w", Halt(<<Var("w")>>)) :
          v \in Names}
  \cup {Predicate("ieql", <<v, Lit(1)>>) : v \in Names}
  \cup {PrimitiveOpE("+", <<Lit(1), Lit(2)>>, <<>>, <<Halt(<<v>>)>>) :
          v \in Names}
  \cup {FixE(<<FunctionDefinition("f", <<"n">>, Halt(<<v>>))>>,
             ApplyE(Var("f"), <<Lit(1)>>)) : v \in Names}

WrongNumberNeverChecked(variables, values) == FALSE

\* The test at the head of `evaluate`.
WrongNumberOfParameters(variables, values) == Len(variables) # Len(values)

\* Environment::with_bindings of the zipped lists, collected into a map.
with_bindings(variables, values) == bindn(NoEnvironment, variables, values)

\* `evaluate(variables, values, expression)`
Evaluate ==
  /\ mode = "call"
  /\ call = NoCall
  /\ \E variables \in Prefixes(EntryVariables),
        values \in Prefixes(EntryValues) :
       /\ call' = [method |-> "evaluate", variables |-> variables,
                   values |-> values]
       /\ IF WrongNumberOfParameters(variables, values)
            THEN Panic
            ELSE Eval(program, with_bindings(variables, values))
  /\ UNCHANGED <<store, overflow_checks, program, installed>>

InitEvaluate ==
  /\ mode = "call"
  /\ program \in LookupPrograms
  /\ expression = NoExpression
  /\ environment = NoEnvironment
  /\ answer = NoAnswer
  /\ store = InitialStore
  /\ overflow_checks \in BOOLEAN
  /\ installed = NoFunction
  /\ call = NoCall

NextEvaluate ==
  \/ Evaluate
  \/ EvaluateRecord
  \/ EvaluateSelect
  \/ EvaluateOffset
  \/ EvaluateApply
  \/ EvaluateFix
  \/ EvaluateSwitch
  \/ EvaluatePrimitiveOp
  \/ CallContinuation
  \/ CallFunction
  \/ CallExternal
  \/ CallRaise

SpecEvaluate == InitEvaluate /\ [][NextEvaluate]_vars

---------------------------------------------------------------------------
(* Properties of internal errors, under SpecEvaluate.                      *)

\* The atomic values the rule for e looks up in env.
LookedUp(e, env) ==
  CASE e.t = "Record" -> {e.values[n].value : n \in 1..Len(e.values)}
    [] e.t \in {"Select", "Offset", "Switch"} -> {e.value}
    [] e.t = "Apply" ->
         {e.function} \cup
           IF Bound(env, e.function)
                /\ value_to_denotable_value(env, e.function).tag = "Function"
             THEN {e.arguments[n] : n \in 1..Len(e.arguments)}
             ELSE {}
    [] e.t = "PrimitiveOp" -> {e.values[n] : n \in 1..Len(e.values)}
    [] OTHER -> {}

\* C21: `evaluate` with lists of different lengths aborts with no part of
\* the expression evaluated; a rule that looks up a Variable or a Label
\* unbound in its environment aborts; after an abort nothing happens: no
\* handler and no continuation is invoked.
C21_InternalErrorsAbort ==
  /\ [](call.method = "evaluate"
          /\ Len(call.variables) # Len(call.values) => mode = "panic")
  /\ [][(mode = "eval"
           /\ \E v \in LookedUp(expression, environment) :
                ~Bound(environment, v)) => mode' = "panic"]_vars
  /\ [][mode # "panic"]_vars

\* `evaluate` has aborted on two variables and one value.
C21_Witness ==
  /\ mode = "panic"
  /\ call.method = "evaluate"
  /\ Len(call.variables) = 2
  /\ Len(call.values) = 1

=============================================================================
